---- MODULE Spec2Model ----
(***************************************************************************)
(* Model of the LLM command state machine (app/state_machine/machine.py)   *)
(* and of the task store it commits to (app/services/task_service.py,      *)
(* app/core/scope.py), over one SQLAlchemy session (autoflush off).        *)
(*                                                                         *)
(* Python None is modelled as 0 for ids.  A database session is a record   *)
(*   tasks, deps        what the session's queries see (flushed rows)      *)
(*   new_deps, del_deps objects added / marked deleted but not flushed     *)
(*   next_id            the id sequence of the tasks table                 *)
(*   committed          the rows other transactions see (the task store)  *)
(*   inactive           a flush failed and rollback() was not called yet:  *)
(*                      every use of the session raises PendingRollback-   *)
(*                      Error                                              *)
(***************************************************************************)
EXTENDS Integers, Sequences, FiniteSets, TLC

\* ------------------------------------------------------------------ bounds
MaxOps == 2
MaxPlans == 1
MaxAttempts == 2
MaxTasks == 6

\* ------------------------------------------------------- fixed environment
\* scope.user.id of the session's principal
Principal == 1

\* group_memberships rows: user 1 is a member of group 2, group 2 is a
\* nested member of group 1
Memberships ==
  { [group_id |-> 2, user_id |-> 1, member_group_id |-> 0],
    [group_id |-> 1, user_id |-> 0, member_group_id |-> 2] }

\* a date is <<year, month, day>>; None in a date column is NoDate
NoDate == << >>

\* None in a text column
NoText == ""

MkTask(owner, assignee, group, title, status, recurrence) ==
  [ user_id |-> owner, assignee_id |-> assignee, assigned_group_id |-> group,
    title |-> title, status |-> status, recurrence |-> recurrence,
    due_date |-> NoDate, deferred_until |-> NoDate,
    description |-> NoText, notes |-> NoText, urgency |-> "normal" ]

\* tasks present when the session is created: 1 is owned by the principal
\* and blocked by 2; 2 is owned by user 2 and assigned to group 1 (readable,
\* not writable, by the principal); 3 is owned by user 2 and unassigned
InitTasks ==
  (1 :> MkTask(1, 0, 0, "A", "todo", "none")) @@
  (2 :> MkTask(2, 0, 1, "A", "todo", "none")) @@
  (3 :> MkTask(2, 0, 0, "A", "todo", "none"))

InitDeps == { <<1, 2>> }

InitDb ==
  [ tasks |-> InitTasks, deps |-> InitDeps, new_deps |-> {}, del_deps |-> {},
    next_id |-> 4,
    committed |-> [tasks |-> InitTasks, deps |-> InitDeps], inactive |-> FALSE ]

\* ------------------------------------------------------------ authorization
\* The queries on group_memberships have no ORDER BY: ord[g], the place of
\* group g among the rows a query returns, is any ranking of the groups.
MaxGroups == 3
Groups == 1..MaxGroups
RowOrder == [g \in Groups |-> g]

\* the next of the rows todo that a for loop takes
FirstRow(todo, ord) == CHOOSE x \in todo : \A y \in todo : ord[x] <= ord[y]

\* the groups with a row in ms naming group_id as their nested member
ParentRows(ms, group_id) ==
  { m.group_id : m \in { x \in ms : x.member_group_id = group_id } }

\* the groups with a row in ms naming them as nested member of group_id
MemberRows(ms, group_id) ==
  { m.member_group_id : m \in { x \in ms : x.group_id = group_id /\ x.member_group_id # 0 } }

RECURSIVE get_parent_group_ids(_, _, _, _)
\* returns <<parent_ids, visited>>: visited is the caller's set, mutated
get_parent_group_ids(ms, ord, group_id, visited) ==
  IF group_id \in visited THEN << {}, visited >>
  ELSE
    LET RECURSIVE Walk(_, _, _)
        Walk(todo, acc, vis) ==
          IF todo = {} THEN << acc, vis >>
          ELSE LET p == FirstRow(todo, ord) IN
               IF p \in vis THEN Walk(todo \ {p}, acc, vis)
               ELSE LET r == get_parent_group_ids(ms, ord, p, vis) IN
                    Walk(todo \ {p}, acc \cup r[1], r[2])
    IN Walk(ParentRows(ms, group_id), {group_id}, visited \cup {group_id})

get_user_group_ids_direct(ms, ord, user_id) ==
  { m.group_id : m \in { x \in ms : x.user_id = user_id } }

get_user_group_ids(ms, ord, user_id) ==
  LET direct == { m.group_id : m \in { x \in ms : x.user_id = user_id } }
      RECURSIVE Loop(_, _, _)
      Loop(todo, group_ids, visited) ==
        IF todo = {} THEN group_ids
        ELSE LET g == FirstRow(todo, ord) IN
             IF g \in visited THEN Loop(todo \ {g}, group_ids, visited)
             ELSE
               LET vis2 == visited \cup {g}
                   found == UNION { get_parent_group_ids(ms, ord, p, vis2)[1] :
                                      p \in ParentRows(ms, g) \ vis2 }
               IN Loop(todo \ {g}, group_ids \cup {g} \cup found, vis2)
  IN Loop(direct, {}, {})

RECURSIVE get_all_member_groups(_, _, _, _)
\* returns <<member_ids, visited>>: visited is the caller's set, mutated
get_all_member_groups(ms, ord, group_id, visited) ==
  IF group_id \in visited THEN << {}, visited >>
  ELSE
    LET RECURSIVE Walk(_, _, _)
        Walk(todo, acc, vis) ==
          IF todo = {} THEN << acc, vis >>
          ELSE LET c == FirstRow(todo, ord) IN
               IF c \in vis THEN Walk(todo \ {c}, acc, vis)
               ELSE LET r == get_all_member_groups(ms, ord, c, vis) IN
                    Walk(todo \ {c}, acc \cup r[1], r[2])
    IN Walk(MemberRows(ms, group_id), {group_id}, visited \cup {group_id})

check_circular_group_reference_direct(ms, ord, parent_group_id, child_group_id) ==
  parent_group_id \in MemberRows(ms, child_group_id)

check_circular_group_reference(ms, ord, parent_group_id, child_group_id) ==
  parent_group_id \in get_all_member_groups(ms, ord, child_group_id, {})[1]

can_access_task(user_id, task) ==
  \/ task.user_id = user_id
  \/ task.assignee_id = user_id
  \/ /\ task.assigned_group_id # 0
     /\ task.assigned_group_id \in get_user_group_ids(Memberships, RowOrder, user_id)

can_modify_task_reader(user_id, task) == can_access_task(user_id, task)

can_modify_task(user_id, task) == task.user_id = user_id

\* --------------------------------------------------------- database session
\* Session.flush(): pending deletes and inserts of dependency rows reach the
\* transaction
Flush(d) ==
  [d EXCEPT !.deps = (d.deps \ d.del_deps) \cup d.new_deps,
            !.new_deps = {}, !.del_deps = {}]

\* Session.commit(): flush, then the transaction becomes the stored state
Commit(d) ==
  LET f == Flush(d) IN
  [f EXCEPT !.committed = [tasks |-> f.tasks, deps |-> f.deps]]

\* the transaction is rolled back: the session sees the stored rows again
Rollback(d) ==
  [d EXCEPT !.tasks = d.committed.tasks, !.deps = d.committed.deps,
            !.new_deps = {}, !.del_deps = {}, !.inactive = FALSE]

\* CheckConstraint check_single_assignment of the tasks table, which the
\* database evaluates when a changed row is flushed
check_single_assignment(task) ==
  ~ (task.assignee_id # 0 /\ task.assigned_group_id # 0)

\* the flush of commit() failed: the database transaction is rolled back
\* and the session stays inactive until its rollback() is called
FlushFailed(d) == [Rollback(d) EXCEPT !.inactive = TRUE]

\* a failed store call: the exception leaves the session as it is
Raise(d, code, detail) == [db |-> d, ok |-> FALSE, id |-> 0, err |-> detail, code |-> code]
Return(d, id) == [db |-> d, ok |-> TRUE, id |-> id, err |-> "", code |-> 200]

\* get_task_by_id: the task id if it exists and is readable, else 0 (None)
get_task_by_id(d, user_id, task_id) ==
  IF task_id \notin DOMAIN d.tasks THEN 0
  ELSE IF ~ can_access_task(user_id, d.tasks[task_id]) THEN 0
  ELSE task_id

Truthy(attrs, k) == k \in DOMAIN attrs /\ attrs[k] # 0
Get(attrs, k, default) == IF k \in DOMAIN attrs THEN attrs[k] ELSE default

\* the loop over prerequisite_ids shared by create_task and update_task:
\* every readable prerequisite adds a dependency object to the session, the
\* first unreadable one raises
RECURSIVE AddPrereqs(_, _, _, _, _)
AddPrereqs(d, user_id, task_id, ids, i) ==
  IF i > Len(ids) THEN Return(d, task_id)
  ELSE IF get_task_by_id(d, user_id, ids[i]) = 0
       THEN Raise(d, 404, "Prerequisite task not found")
       ELSE AddPrereqs([d EXCEPT !.new_deps = @ \cup { <<task_id, ids[i]>> }],
                       user_id, task_id, ids, i + 1)

\* keyword parameters of create_task
CreateKwargs ==
  { "title", "description", "notes", "task_status", "urgency", "due_date",
    "deferred_until", "recurrence", "assignee_id", "assigned_group_id",
    "prerequisite_ids" }

\* columns of Task that the model keeps (hasattr(task, field) holds for them)
TaskColumns ==
  { "user_id", "assignee_id", "assigned_group_id", "title", "status", "recurrence",
    "due_date", "deferred_until", "description", "notes", "urgency" }

\* the integer columns, where None is 0
IdFields == { "user_id", "assignee_id", "assigned_group_id" }

DateFields == { "due_date", "deferred_until" }

create_task(d, user_id, kw) ==
  IF ~ (DOMAIN kw \subseteq CreateKwargs) \/ "title" \notin DOMAIN kw
  THEN Raise(d, 500, "TypeError")
  ELSE IF Truthy(kw, "assignee_id") /\ Truthy(kw, "assigned_group_id")
  THEN Raise(d, 400, "Cannot assign to both user and group")
  ELSE
    LET id == d.next_id
        task == [ MkTask(user_id, Get(kw, "assignee_id", 0),
                         Get(kw, "assigned_group_id", 0), kw["title"],
                         Get(kw, "task_status", "todo"), Get(kw, "recurrence", "none"))
                  EXCEPT !.due_date = Get(kw, "due_date", NoDate),
                         !.deferred_until = Get(kw, "deferred_until", NoDate),
                         !.description = Get(kw, "description", NoText),
                         !.notes = Get(kw, "notes", NoText),
                         !.urgency = Get(kw, "urgency", "normal") ]
        \* db.add(task); db.flush()
        d1 == [Flush(d) EXCEPT !.tasks = @ @@ (id :> task), !.next_id = id + 1]
        r == AddPrereqs(d1, user_id, id, Get(kw, "prerequisite_ids", << >>), 1)
    IN IF r.ok THEN Return(Commit(r.db), id) ELSE r

\* the setattr loop of update_task
RECURSIVE SetFields(_, _, _)
SetFields(task, updates, keys) ==
  IF keys = {} THEN task
  ELSE LET k == CHOOSE x \in keys : TRUE
           \* value is not None and hasattr(task, field)
           skip == \/ k \notin TaskColumns
                   \/ (k \in DateFields /\ updates[k] = NoDate)
                   \/ (k \in IdFields /\ updates[k] = 0)
       IN SetFields(IF skip THEN task ELSE [task EXCEPT ![k] = updates[k]],
                    updates, keys \ {k})

update_task(d, user_id, task_id, updates) ==
  IF get_task_by_id(d, user_id, task_id) = 0 THEN Raise(d, 404, "Task not found")
  ELSE IF ~ can_modify_task(user_id, d.tasks[task_id])
  THEN Raise(d, 403, "Not authorized to modify this task")
  ELSE IF Truthy(updates, "assignee_id") /\ Truthy(updates, "assigned_group_id")
  THEN Raise(d, 400, "Cannot assign to both user and group")
  ELSE
    LET d1 == IF "prerequisite_ids" \in DOMAIN updates
              THEN [d EXCEPT !.del_deps = @ \cup { e \in d.deps : e[1] = task_id }]
              ELSE d
        r == AddPrereqs(d1, user_id, task_id, Get(updates, "prerequisite_ids", << >>), 1)
    IN IF ~ r.ok THEN r
       ELSE LET task == SetFields(r.db.tasks[task_id], updates,
                                  DOMAIN updates \ {"prerequisite_ids"})
            IN IF check_single_assignment(task)
               THEN Return(Commit([r.db EXCEPT !.tasks[task_id] = task]), task_id)
               ELSE Raise(FlushFailed(r.db), 500, "IntegrityError")

delete_task(d, user_id, task_id) ==
  IF get_task_by_id(d, user_id, task_id) = 0 THEN Raise(d, 404, "Task not found")
  ELSE IF ~ can_modify_task(user_id, d.tasks[task_id])
  THEN Raise(d, 403, "Not authorized to delete this task")
  ELSE
    LET f == Flush(d)
        gone == [f EXCEPT
                   !.tasks = [t \in DOMAIN f.tasks \ {task_id} |-> f.tasks[t]],
                   !.deps = { e \in f.deps : e[1] # task_id /\ e[2] # task_id }]
    IN Return(Commit(gone), task_id)

\* the calendar
IsLeap(y) == (y % 4 = 0 /\ y % 100 # 0) \/ y % 400 = 0
DaysIn(y, m) ==
  IF m = 2 THEN (IF IsLeap(y) THEN 29 ELSE 28)
  ELSE IF m \in {4, 6, 9, 11} THEN 30 ELSE 31

\* date + timedelta(days=n), n >= 0, one day at a time
NextDay(dt) ==
  IF dt[3] < DaysIn(dt[1], dt[2]) THEN << dt[1], dt[2], dt[3] + 1 >>
  ELSE IF dt[2] < 12 THEN << dt[1], dt[2] + 1, 1 >>
  ELSE << dt[1] + 1, 1, 1 >>

RECURSIVE AddDays(_, _)
AddDays(dt, n) == IF n = 0 THEN dt ELSE AddDays(NextDay(dt), n - 1)

\* dt + relativedelta(years=, months=, days=): the year and the month are
\* advanced and the day is cut to the length of that month, then the days
\* are added; a year past 9999 is no date and raises
relativedelta_days(dt, years, months, days) ==
  LET carry == IF dt[2] + months > 12 THEN 1 ELSE 0
      year == dt[1] + years + carry
      month == dt[2] + months - 12 * carry
      day == IF dt[3] < DaysIn(year, month) THEN dt[3] ELSE DaysIn(year, month)
  IN AddDays(<< year, month, day >>, days)

relativedelta_thirty(dt, years, months, days) ==
  [ok |-> TRUE, date |-> AddDays(dt, 365 * years + 30 * months + days)]

relativedelta(dt, years, months, days) ==
  IF relativedelta_days(dt, years, months, days)[1] > 9999
  THEN [ok |-> FALSE, date |-> NoDate]
  ELSE [ok |-> TRUE, date |-> relativedelta_days(dt, years, months, days)]

\* new_due_date of _create_recurring_task
new_due_date(due_date, recurrence) ==
  IF due_date = NoDate THEN [ok |-> TRUE, date |-> NoDate]
  ELSE IF recurrence = "daily" THEN relativedelta(due_date, 0, 0, 1)
  ELSE IF recurrence = "weekly" THEN relativedelta(due_date, 0, 0, 7)
  ELSE IF recurrence = "monthly" THEN relativedelta(due_date, 0, 1, 0)
  ELSE IF recurrence = "yearly" THEN relativedelta(due_date, 1, 0, 0)
  ELSE [ok |-> TRUE, date |-> NoDate]

\* the values of TaskRecurrence
TaskRecurrence == { "none", "daily", "weekly", "monthly", "yearly" }

\* calculate_next_due_date of todo/core/recurrence.py
calculate_next_due_date(current_due_date, recurrence) ==
  IF current_due_date = NoDate THEN [ok |-> TRUE, date |-> NoDate]
  ELSE IF recurrence \notin TaskRecurrence THEN [ok |-> TRUE, date |-> NoDate]
  ELSE IF recurrence = "daily" THEN relativedelta(current_due_date, 0, 0, 1)
  ELSE IF recurrence = "weekly" THEN relativedelta(current_due_date, 0, 0, 7)
  ELSE IF recurrence = "monthly" THEN relativedelta(current_due_date, 0, 1, 0)
  ELSE IF recurrence = "yearly" THEN relativedelta(current_due_date, 1, 0, 0)
  ELSE [ok |-> TRUE, date |-> NoDate]

successor_task_plain(o, due) ==
  [ MkTask(o.user_id, o.assignee_id, o.assigned_group_id, o.title, "todo", o.recurrence)
    EXCEPT !.due_date = due ]

\* the row _create_recurring_task builds from the original o
successor_task(o, due) ==
  [ MkTask(o.user_id, o.assignee_id, o.assigned_group_id, o.title, "todo", o.recurrence)
    EXCEPT !.description = o.description, !.notes = o.notes, !.urgency = o.urgency,
           !.due_date = due ]

\* _create_recurring_task: the successor row is flushed, the copies of the
\* dependency rows are added to the session
create_recurring_task(d, original_id) ==
  IF ~ new_due_date(d.tasks[original_id].due_date, d.tasks[original_id].recurrence).ok
  THEN Raise(d, 500, "date value out of range")
  ELSE
    LET id == d.next_id
        o == d.tasks[original_id]
        new_task == successor_task(o, new_due_date(o.due_date, o.recurrence).date)
        d1 == [Flush(d) EXCEPT !.tasks = @ @@ (id :> new_task), !.next_id = id + 1]
    IN Return([d1 EXCEPT !.new_deps = { <<id, e[2]>> : e \in { x \in d1.deps : x[1] = original_id } }],
              id)

complete_task_unchecked(d, user_id, task_id) ==
  IF get_task_by_id(d, user_id, task_id) = 0 THEN Raise(d, 404, "Task not found")
  ELSE IF ~ can_modify_task(user_id, d.tasks[task_id])
  THEN Raise(d, 403, "Not authorized to complete this task")
  ELSE Return(Commit([d EXCEPT !.tasks[task_id].status = "done"]), task_id)

complete_task(d, user_id, task_id) ==
  IF get_task_by_id(d, user_id, task_id) = 0 THEN Raise(d, 404, "Task not found")
  ELSE IF ~ can_modify_task(user_id, d.tasks[task_id])
  THEN Raise(d, 403, "Not authorized to complete this task")
  ELSE
    LET prerequisites == { e[2] : e \in { x \in d.deps : x[1] = task_id } }
        incomplete == { p \in prerequisites \cap DOMAIN d.tasks :
                          d.tasks[p].status # "done" }
    IN IF incomplete # {} THEN Raise(d, 400, "Cannot complete: incomplete prerequisites")
       ELSE
         LET d1 == Commit([d EXCEPT !.tasks[task_id].status = "done"])
         IN IF d1.tasks[task_id].recurrence # "none"
            THEN LET r == create_recurring_task(d1, task_id)
                 IN IF r.ok THEN Return(Commit(r.db), r.id) ELSE r
            ELSE Return(d1, task_id)


\* ----------------------------------------------------------- state machine
VARIABLES
  state,             \* self.state: [name, target]
  pending_ops,       \* self.pending_ops: sequence of PendingOperation
  edit_context,      \* self.edit_context
  next_pending_ref,  \* self.next_pending_ref
  plan_notes,        \* self.plan_notes
  error_count,       \* self.error_count
  db,                \* self.db, the SQLAlchemy session and the database behind it
  result,            \* what the last handle_command call returned
  commit_trace,      \* history: the store calls of the last call, if it committed
  issued_refs,       \* history: the pending references handed out since the last discard_all
  all_refs,          \* history: every pending reference handed out in the session
  reissued,          \* history: a reference was handed out that had been handed out before
  attempts,          \* history: number of commit attempts
  session_id,        \* self.session_id of the machine the variables above describe
  other,             \* the StateMachine of a second request, while it is not running
  last,              \* the last call made to the task store from outside a session
  group_memberships, \* the rows of the group_memberships table
  driver             \* process_request: its round, its LLM calls, its actions, how it ended

vars == << state, pending_ops, edit_context, next_pending_ref, plan_notes,
           error_count, db, result, commit_trace, issued_refs, all_refs, reissued,
           attempts, session_id, other, last, group_memberships, driver >>

\* the variables a call to the task store or a pure function leaves alone
session_vars ==
  << state, pending_ops, edit_context, next_pending_ref, plan_notes, error_count,
     result, commit_trace, issued_refs, all_refs, reissued, attempts, session_id,
     other, group_memberships, driver >>

NoTarget == << "none", 0 >>
AwaitingCommand == [name |-> "awaiting_command", target |-> NoTarget]
Completed == [name |-> "completed", target |-> NoTarget]
EditingTask(target) == [name |-> "editing_task", target |-> target]
NoContext == [kind |-> "none", id |-> 0]

PendingOperation(type, target, attrs) == [type |-> type, target |-> target, attrs |-> attrs]

\* StateMachine.__init__ for a second request: its attributes, and the
\* history of the pending references it handed out
SecondMachine ==
  [ session_id |-> 2, state |-> AwaitingCommand, pending_ops |-> << >>,
    edit_context |-> NoContext, next_pending_ref |-> 1, plan_notes |-> << >>,
    error_count |-> 0, issued_refs |-> << >> ]

\* no store call was made from outside a session
NoCall == [op |-> "none"]

\* the commands are applied directly, by no process_request
NoRequest == [status |-> "none"]

\* the StateMachine object
Self ==
  [ state |-> state, pending_ops |-> pending_ops, edit_context |-> edit_context,
    next_pending_ref |-> next_pending_ref, plan_notes |-> plan_notes,
    error_count |-> error_count, db |-> db ]

get_available_commands(self) ==
  IF self.state.name = "completed" THEN {}
  ELSE IF self.state.name = "awaiting_command"
  THEN { "record_plan", "select_task", "create_task", "discard_all", "complete_session" }
  ELSE IF self.state.name = "editing_task"
  THEN { "update_task_fields", "complete_task", "delete_task", "exit_editing",
         "discard_all", "complete_session" }
  ELSE {}

\* build_response: (success, response) of a handler, with the machine as the
\* handler left it; ref is echo.pending_ref, trace the store calls made
build_response(self, success, message) ==
  [ self |-> self, success |-> success, message |-> message, ref |-> 0,
    trace |-> << >>, available_commands |-> get_available_commands(self),
    raised |-> FALSE ]

\* params.get(k) is falsy: the key is missing or its string is empty
Missing(params, k) == k \notin DOMAIN params \/ params[k] = ""

handle_record_plan_noting(self, params) ==
  IF Missing(params, "plan")
  THEN build_response([self EXCEPT !.plan_notes = Append(@, "")], FALSE, "Plan is required")
  ELSE build_response([self EXCEPT !.plan_notes = Append(@, params["plan"])],
                      TRUE, "Plan recorded")

handle_record_plan(self, params) ==
  IF Missing(params, "plan") THEN build_response(self, FALSE, "Plan is required")
  ELSE build_response([self EXCEPT !.plan_notes = Append(@, params["plan"])],
                      TRUE, "Plan recorded")

\* A target string is a sequence of tokens: words, ":" and the characters of
\* a number.  str.split(":", 1) cuts at the first ":", int() reads an
\* optional sign and at least one digit.
DigitValue ==
  ("0" :> 0) @@ ("1" :> 1) @@ ("2" :> 2) @@ ("3" :> 3) @@ ("4" :> 4) @@
  ("5" :> 5) @@ ("6" :> 6) @@ ("7" :> 7) @@ ("8" :> 8) @@ ("9" :> 9)

RECURSIVE Digits(_, _)
Digits(toks, acc) ==
  IF toks = << >> THEN acc ELSE Digits(Tail(toks), 10 * acc + DigitValue[Head(toks)])

ParseInt(toks) ==
  LET body == IF toks # << >> /\ Head(toks) \in {"-", "+"} THEN Tail(toks) ELSE toks
      ok == body # << >> /\ \A i \in 1..Len(body) : body[i] \in DOMAIN DigitValue
      n == IF ok THEN Digits(body, 0) ELSE 0
  IN [ok |-> ok, value |-> IF toks # << >> /\ Head(toks) = "-" THEN 0 - n ELSE n]

ParseTarget(target_str) ==
  LET colons == { i \in 1..Len(target_str) : target_str[i] = ":" }
  IN IF colons = {} THEN [ok |-> FALSE, type |-> << >>, id |-> 0]
     ELSE LET c == CHOOSE i \in colons : \A j \in colons : i <= j
              n == ParseInt(SubSeq(target_str, c + 1, Len(target_str)))
          IN [ok |-> n.ok, type |-> SubSeq(target_str, 1, c - 1), id |-> n.value]

pending_op_any(self, target) == TRUE

pending_op_by_number(self, target) ==
  \E i \in 1..Len(self.pending_ops) : self.pending_ops[i].target[2] = target[2]

\* next(op for op in self.pending_ops if op.target == target) is not None
pending_op(self, target) ==
  \E i \in 1..Len(self.pending_ops) : self.pending_ops[i].target = target

handle_select_task_owned(self, params) ==
  IF self.state.name # "awaiting_command"
  THEN build_response(self, FALSE, "Must be in awaiting_command state to select task")
  ELSE IF "target" \notin DOMAIN params \/ params["target"] = << >>
  THEN build_response(self, FALSE, "Target is required")
  ELSE
    LET t == ParseTarget(params["target"]) IN
    IF ~ t.ok THEN build_response(self, FALSE, "Invalid target format")
    ELSE IF t.type \notin { <<"existing">>, <<"pending">> }
    THEN build_response(self, FALSE, "Invalid target type")
    ELSE
      LET target == << t.type[1], t.id >> IN
      IF t.type = <<"existing">>
      THEN IF \/ get_task_by_id(self.db, Principal, t.id) = 0
              \/ ~ can_modify_task(Principal, self.db.tasks[t.id])
           THEN build_response(self, FALSE, "Task not found")
           ELSE build_response(
                  [self EXCEPT !.edit_context = [kind |-> "task_id", id |-> t.id],
                               !.state = EditingTask(target)],
                  TRUE, "Selected task")
      ELSE IF ~ pending_op(self, target)
           THEN build_response(self, FALSE, "Pending task not found")
           ELSE build_response(
                  [self EXCEPT !.edit_context = [kind |-> "pending_ref", id |-> t.id],
                               !.state = EditingTask(target)],
                  TRUE, "Selected task")

handle_select_task(self, params) ==
  IF self.state.name # "awaiting_command"
  THEN build_response(self, FALSE, "Must be in awaiting_command state to select task")
  ELSE IF "target" \notin DOMAIN params \/ params["target"] = << >>
  THEN build_response(self, FALSE, "Target is required")
  ELSE
    LET t == ParseTarget(params["target"]) IN
    IF ~ t.ok THEN build_response(self, FALSE, "Invalid target format")
    ELSE IF t.type \notin { <<"existing">>, <<"pending">> }
    THEN build_response(self, FALSE, "Invalid target type")
    ELSE
      LET target == << t.type[1], t.id >> IN
      IF t.type = <<"existing">>
      THEN IF get_task_by_id(self.db, Principal, t.id) = 0
           THEN build_response(self, FALSE, "Task not found")
           ELSE build_response(
                  [self EXCEPT !.edit_context = [kind |-> "task_id", id |-> t.id],
                               !.state = EditingTask(target)],
                  TRUE, "Selected task")
      ELSE IF ~ pending_op(self, target)
           THEN build_response(self, FALSE, "Pending task not found")
           ELSE build_response(
                  [self EXCEPT !.edit_context = [kind |-> "pending_ref", id |-> t.id],
                               !.state = EditingTask(target)],
                  TRUE, "Selected task")

handle_create_task_noinc(self, params) ==
  IF Missing(params, "title") THEN build_response(self, FALSE, "Title is required")
  ELSE
    LET ref == self.next_pending_ref
        staged == [self EXCEPT
                     !.pending_ops = Append(@, PendingOperation("create_task", <<"pending", ref>>, params))]
    IN [build_response(staged, TRUE, "Task creation staged") EXCEPT !.ref = ref]

handle_create_task(self, params) ==
  IF Missing(params, "title") THEN build_response(self, FALSE, "Title is required")
  ELSE
    LET ref == self.next_pending_ref
        staged == [self EXCEPT
                     !.pending_ops = Append(@, PendingOperation("create_task", <<"pending", ref>>, params)),
                     !.next_pending_ref = @ + 1]
    IN [build_response(staged, TRUE, "Task creation staged") EXCEPT !.ref = ref]

\* the three staging handlers of editing_task
Stage(self, type, attrs, error, message) ==
  IF self.state.name # "editing_task" THEN build_response(self, FALSE, error)
  ELSE build_response(
         [self EXCEPT !.pending_ops = Append(@, PendingOperation(type, self.state.target, attrs))],
         TRUE, message)

handle_update_task_fields_anystate(self, params) ==
  build_response(
    [self EXCEPT !.pending_ops = Append(@, PendingOperation("update_task", self.state.target, params))],
    TRUE, "Update staged")

handle_update_task_fields(self, params) ==
  Stage(self, "update_task", params,
        "Must be in editing_task state to update fields", "Update staged")

handle_complete_task(self, params) ==
  Stage(self, "complete_task", << >>,
        "Must be in editing_task state to complete task", "Completion staged")

handle_delete_task_eager(self, params) ==
  LET s == Stage(self, "delete_task", << >>,
                 "Must be in editing_task state to delete task", "Deletion staged")
  IN IF s.success /\ self.state.target[1] = "existing"
     THEN [s EXCEPT !.self.db = delete_task(self.db, Principal, self.state.target[2]).db]
     ELSE s

handle_delete_task(self, params) ==
  Stage(self, "delete_task", << >>,
        "Must be in editing_task state to delete task", "Deletion staged")

handle_exit_editing_dropping(self, params) ==
  IF self.state.name # "editing_task" THEN build_response(self, FALSE, "Not in editing mode")
  ELSE build_response([self EXCEPT !.state = AwaitingCommand, !.edit_context = NoContext,
                                   !.pending_ops = << >>],
                      TRUE, "Exited editing mode")

handle_exit_editing(self, params) ==
  IF self.state.name # "editing_task" THEN build_response(self, FALSE, "Not in editing mode")
  ELSE build_response([self EXCEPT !.state = AwaitingCommand, !.edit_context = NoContext],
                      TRUE, "Exited editing mode")

handle_discard_all_keepcontext(self, params) ==
  build_response(
    [self EXCEPT !.pending_ops = << >>, !.plan_notes = << >>, !.next_pending_ref = 1],
    TRUE, "All operations discarded")

handle_discard_all_keepcounter(self, params) ==
  build_response(
    [self EXCEPT !.pending_ops = << >>, !.plan_notes = << >>,
                 !.state = AwaitingCommand, !.edit_context = NoContext],
    TRUE, "All operations discarded")

handle_discard_all(self, params) ==
  build_response(
    [self EXCEPT !.pending_ops = << >>, !.plan_notes = << >>, !.next_pending_ref = 1,
                 !.state = AwaitingCommand, !.edit_context = NoContext],
    TRUE, "All operations discarded")


\* date.fromisoformat: an ISO date string is modelled as the sequence of its
\* numeric fields; it parses iff it has three fields naming a calendar day
fromisoformat(str) ==
  IF /\ Len(str) = 3
     /\ str[1] \in 1..9999
     /\ str[2] \in 1..12
     /\ str[3] \in 1..DaysIn(str[1], str[2])
  THEN [ok |-> TRUE, date |-> str]
  ELSE [ok |-> FALSE, date |-> NoDate]

normalize_task_attrs_unparsed(attrs) ==
  LET keys == IF "status" \in DOMAIN attrs
              THEN (DOMAIN attrs \ {"status"}) \cup {"task_status"}
              ELSE DOMAIN attrs
  IN [k \in keys |->
        IF k = "task_status" /\ "status" \in DOMAIN attrs THEN attrs["status"]
        ELSE attrs[k]]

normalize_task_attrs(attrs) ==
  LET dated == [k \in DOMAIN attrs |->
                  IF k \in DateFields THEN fromisoformat(attrs[k]).date ELSE attrs[k]]
      keys == IF "status" \in DOMAIN dated
              THEN (DOMAIN dated \ {"status"}) \cup {"task_status"}
              ELSE DOMAIN dated
  IN [k \in keys |->
        IF k = "task_status" /\ "status" \in DOMAIN dated THEN dated["status"]
        ELSE dated[k]]

resolve_target_raw(target, pending_map) == [ok |-> TRUE, id |-> target[2]]

resolve_target(target, pending_map) ==
  IF target[1] = "existing" THEN [ok |-> TRUE, id |-> target[2]]
  ELSE IF target[2] \notin DOMAIN pending_map THEN [ok |-> FALSE, id |-> 0]
  ELSE [ok |-> TRUE, id |-> pending_map[target[2]]]

\* one iteration of the loop of commit_operations: the store call of op
CommitOp(op, d, pending_map) ==
  IF op.type = "create_task"
  THEN LET r == create_task(d, Principal, normalize_task_attrs(op.attrs))
       IN [r EXCEPT !.id = IF r.ok THEN r.id ELSE 0] @@
          [pending_map |-> IF r.ok THEN (op.target[2] :> r.id) @@ pending_map
                           ELSE pending_map, target_id |-> r.id]
  ELSE
    LET t == resolve_target(op.target, pending_map) IN
    IF ~ t.ok
    THEN Raise(d, 500, "Pending task not yet created") @@
         [pending_map |-> pending_map, target_id |-> 0]
    ELSE
      LET r == IF op.type = "update_task"
               THEN update_task(d, Principal, t.id, normalize_task_attrs(op.attrs))
               ELSE IF op.type = "complete_task"
               THEN complete_task(d, Principal, t.id)
               ELSE IF get_task_by_id(d, Principal, t.id) # 0
               THEN delete_task(d, Principal, t.id)
               ELSE Return(d, 0)
      IN r @@ [pending_map |-> pending_map, target_id |-> t.id]

RECURSIVE CommitLoop(_, _, _, _, _)

\* what trace records of the store call of ops[i] that ended as r
TraceEntry(ops, i, r) ==
  [index |-> i, type |-> ops[i].type, target_id |-> r.target_id,
   ok |-> r.ok, store |-> r.db.committed]

\* the loop after the store call of ops[i] ended as r: the except branch
\* returns at once, otherwise the loop goes on with the next operation
CommitNext(ops, i, r, trace) ==
  IF r.ok
  THEN CommitLoop(ops, i + 1, r.db, r.pending_map, Append(trace, TraceEntry(ops, i, r)))
  ELSE [ok |-> FALSE, db |-> r.db, trace |-> Append(trace, TraceEntry(ops, i, r)),
        err |-> r.err]

RECURSIVE CommitLoopSkip(_, _, _, _, _)
CommitLoopSkip(ops, i, d, pending_map, trace) ==
  IF i > Len(ops) THEN [ok |-> TRUE, db |-> d, trace |-> trace, err |-> ""]
  ELSE
    LET r == CommitOp(ops[i], d, pending_map)
    IN CommitLoopSkip(ops, i + 1, r.db, r.pending_map, Append(trace, TraceEntry(ops, i, r)))

\* commit_operations: the loop over self.pending_ops from position i on.
\* trace records, per store call, the position of the operation, the task id
\* it was applied to, whether it returned, and the store after it
CommitLoop(ops, i, d, pending_map, trace) ==
  IF i > Len(ops) THEN [ok |-> TRUE, db |-> d, trace |-> trace, err |-> ""]
  ELSE CommitNext(ops, i, CommitOp(ops[i], d, pending_map), trace)

commit_operations_nonempty(self) ==
  IF self.pending_ops = << >>
  THEN [ok |-> FALSE, db |-> self.db, trace |-> << >>, err |-> "Nothing to commit"]
  ELSE CommitLoop(self.pending_ops, 1, self.db, << >>, << >>)

commit_operations(self) == CommitLoop(self.pending_ops, 1, self.db, << >>, << >>)

\* _handle_complete_session after commit_operations ended as c
session_response(self, c) ==
  IF c.ok
  THEN [build_response([self EXCEPT !.db = c.db, !.state = Completed],
                       TRUE, "Session completed successfully")
        EXCEPT !.trace = c.trace]
  ELSE [build_response([self EXCEPT !.db = c.db], FALSE, "Failed to commit operations")
        EXCEPT !.trace = c.trace]

handle_complete_session_rollback(self, params) ==
  LET c == commit_operations(self) IN
  IF c.ok
  THEN [build_response([self EXCEPT !.db = c.db, !.state = Completed],
                       TRUE, "Session completed successfully")
        EXCEPT !.trace = c.trace]
  ELSE [build_response(self, FALSE, "Failed to commit operations")
        EXCEPT !.trace = c.trace]

handle_complete_session_reset(self, params) ==
  LET c == commit_operations(self) IN
  IF c.ok
  THEN [build_response([self EXCEPT !.db = c.db, !.state = Completed],
                       TRUE, "Session completed successfully")
        EXCEPT !.trace = c.trace]
  ELSE [build_response([self EXCEPT !.db = c.db, !.pending_ops = << >>,
                                    !.state = AwaitingCommand, !.edit_context = NoContext],
                       FALSE, "Failed to commit operations")
        EXCEPT !.trace = c.trace]

handle_complete_session(self, params) ==
  session_response(self, commit_operations(self))

Commands ==
  { "record_plan", "select_task", "create_task", "update_task_fields",
    "complete_task", "delete_task", "exit_editing", "discard_all",
    "complete_session" }

\* the handler lookup and call of handle_command
Dispatch(self, command, params) ==
  IF command \notin Commands
  THEN build_response(self, FALSE, "Unknown command")
  ELSE CASE command = "record_plan" -> handle_record_plan(self, params)
         [] command = "select_task" -> handle_select_task(self, params)
         [] command = "create_task" -> handle_create_task(self, params)
         [] command = "update_task_fields" -> handle_update_task_fields(self, params)
         [] command = "complete_task" -> handle_complete_task(self, params)
         [] command = "delete_task" -> handle_delete_task(self, params)
         [] command = "exit_editing" -> handle_exit_editing(self, params)
         [] command = "discard_all" -> handle_discard_all(self, params)
         [] command = "complete_session" -> handle_complete_session(self, params)

\* the try/except around the handler call.  build_response reads the open
\* tasks through self.db (_get_open_tasks): on an inactive session the
\* handler's build_response raises, the except clause counts an error, and
\* its own build_response raises again, out of handle_command
Caught(r) ==
  IF r.self.db.inactive
  THEN [r EXCEPT !.self.error_count = @ + 1, !.success = FALSE, !.ref = 0,
                 !.message = "PendingRollbackError", !.raised = TRUE]
  ELSE r

\* params is None: the arguments of the tool call were the JSON value null
NoneParams == [none |-> TRUE]

\* the handler raises AttributeError at its params.get: record_plan and
\* create_task do at their first statement, select_task after its state test
RaisesOnNone(self, command, params) ==
  /\ "none" \in DOMAIN params
  /\ \/ command \in { "record_plan", "create_task" }
     \/ command = "select_task" /\ self.state.name = "awaiting_command"

handle_command_open(self, command, params) == Dispatch(self, command, params)

handle_command(self, command, params) ==
  IF self.state.name = "completed"
  THEN build_response(self, FALSE, "Session already completed")
  ELSE IF RaisesOnNone(self, command, params)
  THEN build_response([self EXCEPT !.error_count = @ + 1], FALSE, "AttributeError")
  ELSE Caught(Dispatch(self, command, params))

\* the error taxonomy of the messages of a failed response
ErrorKind(message) ==
  IF message = "Session already completed" THEN "completed"
  ELSE IF message = "Unknown command" THEN "unknown_command"
  ELSE IF message \in { "Must be in awaiting_command state to select task",
                        "Must be in editing_task state to update fields",
                        "Must be in editing_task state to complete task",
                        "Must be in editing_task state to delete task",
                        "Not in editing mode" } THEN "state"
  ELSE IF message \in { "Plan is required", "Target is required", "Title is required",
                        "Invalid target format", "Invalid target type" } THEN "validation"
  ELSE IF message \in { "Task not found", "Pending task not found" } THEN "not_found"
  ELSE IF message = "Failed to commit operations" THEN "commit"
  ELSE IF message = "AttributeError" THEN "exception"
  ELSE "none"

\* ------------------------------------------------------------------ inputs
NoParams == << >>

PlanParams == { [plan |-> "p"], NoParams }

Target(type, id) == [target |-> << type, ":", id >>]

SelectParams ==
  { Target("existing", "1"), Target("existing", "2"), Target("existing", "3"),
    Target("existing", "9"), Target("pending", "0"), Target("pending", "1"),
    Target("pending", "2"),
    Target("other", "1"), [target |-> << "pending", "1" >>],
    [target |-> << "pending", ":", "x" >>], NoParams }

CreateParams ==
  { [title |-> "A"],
    [description |-> "d"] }

UpdateParams ==
  { [title |-> "B"] }

\* every call the command source makes in the model
Calls ==
  ({"record_plan"} \X PlanParams) \cup ({"select_task"} \X SelectParams) \cup
  ({"create_task"} \X CreateParams) \cup ({"update_task_fields"} \X UpdateParams) \cup
  ({ "complete_task", "delete_task", "exit_editing", "discard_all",
     "complete_session", "list_tasks" } \X {NoParams})

\* ----------------------------------------------------------------- actions
\* StateMachine.__init__, and the histories of a session that has not begun
NewSession ==
  /\ state = AwaitingCommand
  /\ pending_ops = << >>
  /\ edit_context = NoContext
  /\ next_pending_ref = 1
  /\ plan_notes = << >>
  /\ error_count = 0
  /\ result = [success |-> TRUE, error |-> "none"]
  /\ commit_trace = << >>
  /\ issued_refs = << >>
  /\ all_refs = {}
  /\ reissued = FALSE
  /\ attempts = 0
  /\ session_id = 1
  /\ other = SecondMachine

Init ==
  /\ NewSession
  /\ db = InitDb
  /\ last = NoCall
  /\ group_memberships = Memberships
  /\ driver = NoRequest

\* the machine and the histories after the call of command returned r
Returned(command, r) ==
  /\ state' = r.self.state
  /\ pending_ops' = r.self.pending_ops
  /\ edit_context' = r.self.edit_context
  /\ next_pending_ref' = r.self.next_pending_ref
  /\ plan_notes' = r.self.plan_notes
  /\ error_count' = r.self.error_count
  /\ db' = r.self.db
  /\ result' = [success |-> r.success,
                error |-> IF r.raised THEN "raised" ELSE ErrorKind(r.message)]
  /\ commit_trace' = r.trace
  /\ issued_refs' = IF r.ref # 0 THEN Append(issued_refs, r.ref)
                    ELSE IF command = "discard_all" /\ r.success THEN << >>
                    ELSE issued_refs
  /\ all_refs' = IF r.ref # 0 THEN all_refs \cup {r.ref} ELSE all_refs
  /\ reissued' = (reissued \/ (r.ref # 0 /\ r.ref \in all_refs))
  /\ attempts' = IF command = "complete_session" /\ state.name # "completed"
                 THEN attempts + 1 ELSE attempts
  /\ UNCHANGED << session_id, other, last, group_memberships >>

\* one call machine.handle_command(command, params)
HandleCommand(command, params) ==
  /\ Returned(command, handle_command(Self, command, params))
  /\ UNCHANGED driver

Done == state.name = "completed"
RoomForOp == Done \/ Len(pending_ops) < MaxOps

RecordPlan ==
  \E p \in PlanParams :
    /\ Done \/ Len(plan_notes) < MaxPlans
    /\ HandleCommand("record_plan", p)

SelectTask == \E p \in SelectParams : HandleCommand("select_task", p)

CreateTask ==
  \E p \in CreateParams :
    /\ RoomForOp
    /\ HandleCommand("create_task", p)

UpdateTaskFields ==
  \E p \in UpdateParams : RoomForOp /\ HandleCommand("update_task_fields", p)

CompleteTask == RoomForOp /\ HandleCommand("complete_task", NoParams)

DeleteTask == RoomForOp /\ HandleCommand("delete_task", NoParams)

ExitEditing == HandleCommand("exit_editing", NoParams)

DiscardAll == HandleCommand("discard_all", NoParams)

CompleteSession ==
  /\ Done \/ attempts < MaxAttempts
  /\ HandleCommand("complete_session", NoParams)

UnknownCommand == HandleCommand("list_tasks", NoParams)

Next ==
  \/ RecordPlan
  \/ SelectTask
  \/ CreateTask
  \/ UpdateTaskFields
  \/ CompleteTask
  \/ DeleteTask
  \/ ExitEditing
  \/ DiscardAll
  \/ CompleteSession
  \/ UnknownCommand

Spec == Init /\ [][Next]_vars

\* ------------------------------------------------------------ two sessions
\* Two requests are in progress, each with its own StateMachine; between two
\* commands the other request may be the next to run.  The variables of the
\* machine describe the request that runs.
SwitchSessionSharedCounter ==
  /\ session_id' = other.session_id
  /\ state' = other.state
  /\ pending_ops' = other.pending_ops
  /\ edit_context' = other.edit_context
  /\ plan_notes' = other.plan_notes
  /\ error_count' = other.error_count
  /\ issued_refs' = other.issued_refs
  /\ other' = [ session_id |-> session_id, state |-> state, pending_ops |-> pending_ops,
                edit_context |-> edit_context, next_pending_ref |-> next_pending_ref,
                plan_notes |-> plan_notes, error_count |-> error_count,
                issued_refs |-> issued_refs ]
  /\ UNCHANGED << next_pending_ref, db, result, commit_trace, all_refs, reissued, attempts, last,
                  group_memberships, driver >>

SwitchSession ==
  /\ session_id' = other.session_id
  /\ state' = other.state
  /\ pending_ops' = other.pending_ops
  /\ edit_context' = other.edit_context
  /\ next_pending_ref' = other.next_pending_ref
  /\ plan_notes' = other.plan_notes
  /\ error_count' = other.error_count
  /\ issued_refs' = other.issued_refs
  /\ other' = [ session_id |-> session_id, state |-> state, pending_ops |-> pending_ops,
                edit_context |-> edit_context, next_pending_ref |-> next_pending_ref,
                plan_notes |-> plan_notes, error_count |-> error_count,
                issued_refs |-> issued_refs ]
  /\ UNCHANGED << db, result, commit_trace, all_refs, reissued, attempts, last,
                  group_memberships, driver >>

TwoSessionsNext ==
  \/ RecordPlan
  \/ SelectTask
  \/ CreateTask
  \/ DeleteTask
  \/ DiscardAll
  \/ CompleteSession
  \/ SwitchSession

TwoSessions == Init /\ [][TwoSessionsNext]_vars


\* -------------------------------------------------------------- task store
\* Requests to the task routes by two users, and single operations of a
\* commit of the principal's session, against a store of four tasks:
\* 1 is owned by user 1, assigned to user 2 and blocked by 2; 2 is owned by
\* user 2 and assigned to group 1, of which user 1 is a member through
\* group 2; 3 is owned by user 2 and unassigned; 4 is owned by user 1,
\* assigned to group 2, recurs monthly and is blocked by 1 and by 2.
Users == { 1, 2 }

StoreTasks ==
  (1 :> MkTask(1, 2, 0, "A", "todo", "none")) @@
  (2 :> MkTask(2, 0, 1, "A", "todo", "none")) @@
  (3 :> MkTask(2, 0, 0, "A", "todo", "none")) @@
  (4 :> [ MkTask(1, 0, 2, "R", "todo", "monthly")
          EXCEPT !.due_date = << 2024, 1, 31 >>, !.deferred_until = << 2024, 1, 1 >>,
                 !.description = "d", !.notes = "n", !.urgency = "high" ])

StoreDeps == { <<1, 2>>, <<4, 1>>, <<4, 2>> }

StoreDb ==
  [ tasks |-> StoreTasks, deps |-> StoreDeps, new_deps |-> {}, del_deps |-> {},
    next_id |-> 5,
    committed |-> [tasks |-> StoreTasks, deps |-> StoreDeps], inactive |-> FALSE ]

\* task ids a request names: every id handed out so far and the next one
TaskIds == 1..MaxTasks

\* bodies of POST /api/tasks as create_new_task passes them on
StatusCreates ==
  { [title |-> "N"],
    [title |-> "N", task_status |-> "done", prerequisite_ids |-> << 1 >>] }

AssignmentCreates ==
  { [title |-> "N", assigned_group_id |-> 1],
    [title |-> "N", assignee_id |-> 2, assigned_group_id |-> 1] }

\* bodies of PATCH /api/tasks/{id} after model_dump(exclude_none=True)
StatusUpdates ==
  { [status |-> "done"] }

AssignmentUpdates ==
  { [assignee_id |-> 1],
    [assigned_group_id |-> 1],
    [assignee_id |-> 1, assigned_group_id |-> 1] }

\* the operations a session of the principal has staged against the task
\* it selected, with the attributes its update_task_fields command carried
Staged(types, attrs) ==
  { PendingOperation(type, << "existing", t >>,
                     IF type = "update_task" THEN a ELSE << >>) :
      type \in types, t \in TaskIds, a \in attrs }

StatusStaged ==
  Staged({ "update_task", "complete_task", "delete_task" }, { [status |-> "done"] })

OwnerStaged ==
  Staged({ "update_task" }, { [user_id |-> 2], [title |-> "B"] })

\* the request or commit step is over: get_db closes its session, and last
\* keeps what was called and what it returned or raised (r)
Answered(op, user_id, task_id, args, r) ==
  /\ db' = Rollback(r.db)
  /\ last' = [ op |-> op, user_id |-> user_id, task_id |-> task_id, args |-> args,
               ok |-> r.ok, code |-> r.code, detail |-> r.err, id |-> r.id ]
  /\ UNCHANGED session_vars

RoomForTask == db.next_id <= MaxTasks

CreateRequest(bodies) ==
  \E u \in Users, body \in bodies :
    /\ RoomForTask
    /\ Answered("create", u, 0, body, create_task(db, u, body))

UpdateRequest(bodies) ==
  \E u \in Users, t \in TaskIds, body \in bodies :
    Answered("update", u, t, body, update_task(db, u, t, body))

DeleteRequest ==
  \E u \in Users, t \in TaskIds :
    Answered("delete", u, t, << >>, delete_task(db, u, t))

CompleteRequest ==
  \E u \in Users, t \in TaskIds :
    /\ RoomForTask
    /\ Answered("complete", u, t, << >>, complete_task(db, u, t))

\* one turn of the loop of commit_operations in a session of the principal
CommitStaged(ops) ==
  \E op \in ops :
    /\ RoomForTask
    /\ Answered(op.type, Principal, op.target[2], op.attrs, CommitOp(op, db, << >>))

StoreInit ==
  /\ NewSession
  /\ db = StoreDb
  /\ last = NoCall
  /\ group_memberships = Memberships
  /\ driver = NoRequest

\* status and existence of tasks change
StoreNext ==
  \/ CreateRequest(StatusCreates)
  \/ UpdateRequest(StatusUpdates)
  \/ DeleteRequest
  \/ CompleteRequest
  \/ CommitStaged(StatusStaged)

StoreSpec == StoreInit /\ [][StoreNext]_vars

\* assignment and ownership of tasks change
AssignmentNext ==
  \/ CreateRequest(AssignmentCreates)
  \/ UpdateRequest(AssignmentUpdates)
  \/ CommitStaged(OwnerStaged)

AssignmentSpec == StoreInit /\ [][AssignmentNext]_vars

\* date attributes of staged operations: strings that name a calendar day,
\* and strings that do not (30 February, a string without a day field)
DateStrings == { << 2024, 3, 15 >>, << 2025, 12, 31 >>, << 2024, 2, 30 >>, << 2024, 13 >> }

DateAttrs ==
  { [due_date |-> dt] : dt \in DateStrings } \cup
  { [deferred_until |-> dt] : dt \in DateStrings }

DateStaged ==
  Staged({ "update_task" }, DateAttrs) \cup
  { PendingOperation("create_task", << "pending", 1 >>, [title |-> "N"] @@ a) :
      a \in DateAttrs }

\* dates of tasks change through commits of the principal's session
DateCommitNext == CommitStaged(DateStaged)

DateCommitSpec == StoreInit /\ [][DateCommitNext]_vars


\* ---------------------------------------------------------------- due dates
\* the due dates and recurrences a completed task may carry
DueDates ==
  { dt \in { 2023, 2024, 9999 } \X (1..12) \X { 1, 25, 28, 29, 30, 31 } :
      dt[3] <= DaysIn(dt[1], dt[2]) } \cup { NoDate }

DateInit ==
  /\ NewSession
  /\ db = InitDb
  /\ group_memberships = Memberships
  /\ driver = NoRequest
  /\ last \in { [op |-> "due", due_date |-> dt, recurrence |-> r] :
                   dt \in DueDates, r \in TaskRecurrence \ { "none" } }

\* the due date of the successor is computed
AdvanceDueDate ==
  /\ last.op = "due"
  /\ last' = [ op |-> "next_due", due_date |-> last.due_date,
               recurrence |-> last.recurrence,
               next |-> new_due_date(last.due_date, last.recurrence),
               calculated |-> calculate_next_due_date(last.due_date, last.recurrence) ]
  /\ UNCHANGED << db, session_vars >>

DateNext == AdvanceDueDate

DateSpec == DateInit /\ [][DateNext]_vars

\* ---------------------------------------------------------- group resolution
\* a row of group_memberships: exactly one of user_id and member_group_id is set
UserRow(group_id, user_id) ==
  [group_id |-> group_id, user_id |-> user_id, member_group_id |-> 0]

GroupRow(group_id, member_group_id) ==
  [group_id |-> group_id, user_id |-> 0, member_group_id |-> member_group_id]

\* every table of nested memberships over Groups, cyclic ones included, with
\* any direct memberships of the principal
AnyMemberships ==
  SUBSET ({ GroupRow(g, h) : g \in Groups, h \in Groups } \cup
          { UserRow(g, Principal) : g \in Groups })

\* every order in which a query may return the rows of the groups
RowOrders == { ord \in [Groups -> Groups] : \A g, h \in Groups : ord[g] = ord[h] => g = h }

ScopeInit ==
  /\ NewSession
  /\ db = InitDb
  /\ last = NoCall
  /\ group_memberships \in AnyMemberships
  /\ driver = NoRequest

\* check_circular_group_reference is called on the table
CheckCircular ==
  \E ord \in RowOrders, parent \in Groups, child \in Groups :
    /\ last' = [ op |-> "check_circular", parent_group_id |-> parent,
                 child_group_id |-> child,
                 result |-> check_circular_group_reference(group_memberships, ord,
                                                           parent, child) ]
    /\ UNCHANGED << db, session_vars >>

\* get_user_group_ids is called on the table for the principal
ResolveGroups ==
  \E ord \in RowOrders :
    /\ last' = [ op |-> "group_ids", user_id |-> Principal,
                 result |-> get_user_group_ids(group_memberships, ord, Principal) ]
    /\ UNCHANGED << db, session_vars >>

ScopeNext == CheckCircular \/ ResolveGroups

ScopeSpec == ScopeInit /\ [][ScopeNext]_vars

\* ------------------------------------------------------------ group service
\* groups.created_by_user_id of the groups that exist
GroupCreator == [g \in Groups |-> IF g = MaxGroups THEN 2 ELSE Principal]

get_group_by_id(group_id) == IF group_id \in DOMAIN GroupCreator THEN group_id ELSE 0

can_modify_group(user_id, group_id) == GroupCreator[group_id] = user_id

\* what a group service call answers: the table it leaves, and the error
Refuse(ms, code, detail) == [ms |-> ms, ok |-> FALSE, code |-> code, detail |-> detail]
Accept(ms) == [ms |-> ms, ok |-> TRUE, code |-> 200, detail |-> ""]

add_group_member_unchecked(ms, ord, caller, group_id, user_id, member_group_id) ==
  IF (user_id = 0) = (member_group_id = 0)
  THEN Refuse(ms, 400, "Exactly one of user_id or member_group_id must be set")
  ELSE IF get_group_by_id(group_id) = 0 THEN Refuse(ms, 404, "Group not found")
  ELSE IF ~ can_modify_group(caller, group_id)
  THEN Refuse(ms, 403, "Not authorized to modify this group")
  ELSE IF \E m \in ms : /\ m.group_id = group_id
                         /\ IF user_id # 0 THEN m.user_id = user_id
                            ELSE m.member_group_id = member_group_id
  THEN Refuse(ms, 400, "Member already exists in group")
  ELSE IF member_group_id # 0 /\ get_group_by_id(member_group_id) = 0
  THEN Refuse(ms, 404, "Member group not found")
  ELSE Accept(ms \cup { [group_id |-> group_id, user_id |-> user_id,
                         member_group_id |-> member_group_id] })

add_group_member(ms, ord, caller, group_id, user_id, member_group_id) ==
  IF (user_id = 0) = (member_group_id = 0)
  THEN Refuse(ms, 400, "Exactly one of user_id or member_group_id must be set")
  ELSE IF get_group_by_id(group_id) = 0 THEN Refuse(ms, 404, "Group not found")
  ELSE IF ~ can_modify_group(caller, group_id)
  THEN Refuse(ms, 403, "Not authorized to modify this group")
  ELSE IF \E m \in ms : /\ m.group_id = group_id
                         /\ IF user_id # 0 THEN m.user_id = user_id
                            ELSE m.member_group_id = member_group_id
  THEN Refuse(ms, 400, "Member already exists in group")
  ELSE IF member_group_id # 0 /\ get_group_by_id(member_group_id) = 0
  THEN Refuse(ms, 404, "Member group not found")
  ELSE IF /\ member_group_id # 0
          /\ check_circular_group_reference(ms, ord, group_id, member_group_id)
  THEN Refuse(ms, 400, "Adding this group would create a circular reference")
  ELSE Accept(ms \cup { [group_id |-> group_id, user_id |-> user_id,
                         member_group_id |-> member_group_id] })

\* membership is the row with the given membership id, NoRow if there is none
NoRow == [group_id |-> 0, user_id |-> 0, member_group_id |-> 0]

remove_group_member(ms, caller, group_id, membership) ==
  IF get_group_by_id(group_id) = 0 THEN Refuse(ms, 404, "Group not found")
  ELSE IF ~ can_modify_group(caller, group_id)
  THEN Refuse(ms, 403, "Not authorized to modify this group")
  ELSE IF membership \notin ms \/ membership.group_id # group_id
  THEN Refuse(ms, 404, "Membership not found")
  ELSE Accept(ms \ { membership })

\* the group ids a request names: the groups and one id that is no group
GroupIds == 1..(MaxGroups + 1)

GroupInit ==
  /\ NewSession
  /\ db = InitDb
  /\ last = NoCall
  /\ group_memberships = {}
  /\ driver = NoRequest

\* the call is over: the table it left, and what it returned or raised
GroupAnswered(op, caller, group_id, user_id, member_group_id, r) ==
  /\ group_memberships' = r.ms
  /\ last' = [ op |-> op, user_id |-> caller, group_id |-> group_id,
               member_user_id |-> user_id, member_group_id |-> member_group_id,
               ok |-> r.ok, code |-> r.code, detail |-> r.detail ]
  /\ UNCHANGED << state, pending_ops, edit_context, next_pending_ref, plan_notes,
                  error_count, db, result, commit_trace, issued_refs, all_refs,
                  reissued, attempts, session_id, other, driver >>

AddGroupMember ==
  \E ord \in RowOrders, caller \in Users, g \in GroupIds,
     u \in { 0, Principal }, mg \in { 0 } \cup GroupIds :
    GroupAnswered("add_member", caller, g, u, mg,
                  add_group_member(group_memberships, ord, caller, g, u, mg))

RemoveGroupMember ==
  \E caller \in Users, g \in GroupIds, m \in group_memberships \cup { NoRow } :
    GroupAnswered("remove_member", caller, g, m.user_id, m.member_group_id,
                  remove_group_member(group_memberships, caller, g, m))

GroupNext == AddGroupMember \/ RemoveGroupMember

GroupSpec == GroupInit /\ [][GroupNext]_vars

\* ------------------------------------------------------ conversation driver
\* settings.max_conversation_rounds and settings.max_command_errors, scaled down
max_conversation_rounds == 4
max_command_errors == 2

\* what one chat_completion call ends with: an HTTP error, a body without
\* choices, a message without tool calls, a tool call whose arguments are
\* no JSON, or a tool call with a command and its parameters
Undecodable == [json |-> FALSE]

Replies ==
  { [kind |-> "http_error"], [kind |-> "no_choices"], [kind |-> "content"],
    [kind |-> "tool_call", name |-> "create_task", arguments |-> Undecodable],
    [kind |-> "tool_call", name |-> "record_plan", arguments |-> NoneParams] } \cup
  { [kind |-> "tool_call", name |-> c[1], arguments |-> c[2]] : c \in Calls }

extract_function_call_lenient(response) ==
  IF response.kind = "no_choices" THEN << >>
  ELSE IF response.kind # "tool_call" THEN << >>
  ELSE IF response.arguments = Undecodable THEN << response.name, NoParams >>
  ELSE << response.name, response.arguments >>

\* extract_function_call: <<function_name, arguments>>, or << >> for None
extract_function_call(response) ==
  IF response.kind = "no_choices" THEN << >>
  ELSE IF response.kind # "tool_call" THEN << >>
  ELSE IF response.arguments = Undecodable THEN << >>
  ELSE << response.name, response.arguments >>

\* TaskCommandResponse(command, target, attributes, result) validates: target
\* is declared str | None and is given echo.pending_ref, an int when present
TaskCommandResponse(r) == r.ref = 0

build_final_message_hopeful(actions, machine_state) ==
  IF actions = << >> THEN [text |-> "No actions performed", action_count |-> 0]
  ELSE [text |-> "Successfully performed actions and committed changes",
        action_count |-> Len(actions)]

\* _build_final_message
build_final_message(actions, machine_state) ==
  IF actions = << >> THEN [text |-> "No actions performed", action_count |-> 0]
  ELSE IF machine_state.name = "completed"
  THEN [text |-> "Successfully performed actions and committed changes",
        action_count |-> Len(actions)]
  ELSE [text |-> "Performed actions but did not complete session",
        action_count |-> Len(actions)]

\* process_request before its first round; llm_calls counts the calls of
\* chat_completion, response is what the last one ended with, and applied
\* lists the commands given to handle_command
NewRequest ==
  [ status |-> "running", round_num |-> 0, llm_calls |-> 0, response |-> [kind |-> "none"],
    applied |-> << >>, actions |-> << >>, message |-> [text |-> "", action_count |-> 0] ]

DriverInit ==
  /\ NewSession
  /\ db = InitDb
  /\ last = NoCall
  /\ group_memberships = Memberships
  /\ driver = NewRequest

\* the loop is left: process_request returns the actions and the final message
ReturnFrom(d, machine_state) ==
  [d EXCEPT !.status = "returned", !.message = build_final_message(d.actions, machine_state)]

NextRound_unbounded(d, machine_state) == [d EXCEPT !.round_num = @ + 1]

\* the for loop goes on to its next round, or is exhausted
NextRound(d, machine_state) ==
  IF d.round_num + 1 < max_conversation_rounds
  THEN [d EXCEPT !.round_num = @ + 1]
  ELSE ReturnFrom(d, machine_state)

LLMError_retried(d) ==
  [d EXCEPT !.llm_calls = @ + 1, !.response = [kind |-> "http_error"]]

\* chat_completion raised: the except clause raises out of process_request
LLMError(d) ==
  [d EXCEPT !.llm_calls = @ + 1, !.status = "raised",
            !.response = [kind |-> "http_error"],
            !.message = [text |-> "LLM request failed", action_count |-> 0]]

\* a round whose chat_completion call raises: process_request raises
LLMFails ==
  /\ driver.status = "running"
  /\ driver' = LLMError(driver)
  /\ UNCHANGED << state, pending_ops, edit_context, next_pending_ref, plan_notes,
                  error_count, db, result, commit_trace, issued_refs, all_refs,
                  reissued, attempts, session_id, other, last, group_memberships >>

\* a round whose reply holds no function call: the loop is left
NoFunctionCall ==
  \E response \in Replies :
    /\ driver.status = "running"
    /\ response.kind # "http_error"
    /\ extract_function_call(response) = << >>
    /\ driver' = ReturnFrom([driver EXCEPT !.llm_calls = @ + 1, !.response = response],
                            state)
    /\ UNCHANGED << state, pending_ops, edit_context, next_pending_ref, plan_notes,
                    error_count, db, result, commit_trace, issued_refs, all_refs,
                    reissued, attempts, session_id, other, last, group_memberships >>

ErrorLimit_late(r) == ~ r.success /\ r.self.error_count + 1 > max_command_errors

\* the command failed and machine.error_count, with this failure counted,
\* has reached max_command_errors
ErrorLimit(r) == ~ r.success /\ r.self.error_count + 1 >= max_command_errors

AfterCommand_on(d, command, r) ==
  IF r.raised
  THEN [d EXCEPT !.status = "raised",
                 !.message = [text |-> r.message, action_count |-> 0]]
  ELSE IF ~ TaskCommandResponse(r)
  THEN [d EXCEPT !.status = "raised",
                 !.message = [text |-> "ValidationError", action_count |-> 0]]
  ELSE
    LET recorded == [d EXCEPT !.actions = Append(@, [command |-> command,
                                                     success |-> r.success,
                                                     result |-> r.message])]
    IN IF ErrorLimit(r)
       THEN ReturnFrom(recorded, r.self.state)
       ELSE NextRound(recorded, r.self.state)

\* the driver after handle_command returned r for command in this round
AfterCommand(d, command, r) ==
  IF r.raised
  THEN [d EXCEPT !.status = "raised",
                 !.message = [text |-> r.message, action_count |-> 0]]
  ELSE IF ~ TaskCommandResponse(r)
  THEN [d EXCEPT !.status = "raised",
                 !.message = [text |-> "ValidationError", action_count |-> 0]]
  ELSE
    LET recorded == [d EXCEPT !.actions = Append(@, [command |-> command,
                                                     success |-> r.success,
                                                     result |-> r.message])]
    IN IF r.self.state.name = "completed" THEN ReturnFrom(recorded, r.self.state)
       ELSE IF ErrorLimit(r)
       THEN ReturnFrom(recorded, r.self.state)
       ELSE NextRound(recorded, r.self.state)

\* the machine after the round: the driver counts a failed command itself
CountedError(r) ==
  IF ~ r.raised /\ TaskCommandResponse(r) /\ r.self.state.name # "completed" /\ ~ r.success
  THEN [r EXCEPT !.self.error_count = @ + 1]
  ELSE r

\* a round whose reply holds a function call: the command is applied
RoundWith(response, command, r) ==
  /\ Returned(command, CountedError(r))
  /\ driver' = AfterCommand([driver EXCEPT !.llm_calls = @ + 1, !.response = response,
                                           !.applied = Append(@, command)],
                            command, r)

ApplyCommand ==
  \E response \in Replies :
    /\ driver.status = "running"
    /\ response.kind # "http_error"
    /\ extract_function_call(response) # << >>
    /\ RoundWith(response, extract_function_call(response)[1],
                 handle_command(Self, extract_function_call(response)[1],
                                extract_function_call(response)[2]))

DriverNext == LLMFails \/ NoFunctionCall \/ ApplyCommand

DriverSpec == DriverInit /\ [][DriverNext]_vars

\* process_request runs on until it returns or raises
DriverLive == DriverSpec /\ WF_vars(DriverNext)

\* ------------------------------------------------------- handler failures
\* One session whose update_task_fields commands carry assignment fields:
\* a staged update that leaves a task with both assignee and group fails
\* the flush of its commit.  Nothing calls the machine again once an
\* exception has left handle_command.
AssignParams == { [assignee_id |-> 2], [assigned_group_id |-> 1] }

Alive == result.error # "raised"

AssignTask ==
  \E p \in AssignParams : RoomForOp /\ HandleCommand("update_task_fields", p)

FailureNext ==
  \/ Alive /\ SelectTask
  \/ Alive /\ AssignTask
  \/ Alive /\ DeleteTask
  \/ Alive /\ ExitEditing
  \/ Alive /\ DiscardAll
  \/ Alive /\ CompleteSession

FailureSpec == Init /\ [][FailureNext]_vars

\* ------------------------------------------------- prerequisite failures
\* One session whose staged operations name prerequisites.  Task 3 is never
\* readable by the principal, so the create titled "P" and the update of
\* the prerequisites to task 3 fail in the store on every attempt; the
\* alphabet has no delete, so nothing else removes the edge of task 1.
PrereqCreates ==
  { [title |-> "P", prerequisite_ids |-> << 3 >>],
    [title |-> "A", prerequisite_ids |-> << 2 >>] }

PrereqUpdates ==
  { [prerequisite_ids |-> << 3 >>], [title |-> "B"] }

CreateWithPrereqs ==
  \E p \in PrereqCreates : RoomForOp /\ HandleCommand("create_task", p)

UpdatePrereqs ==
  \E p \in PrereqUpdates : RoomForOp /\ HandleCommand("update_task_fields", p)

PrereqNext ==
  \/ SelectTask
  \/ CreateWithPrereqs
  \/ UpdatePrereqs
  \/ ExitEditing
  \/ DiscardAll
  \/ CompleteSession

PrereqSpec == Init /\ [][PrereqNext]_vars

\* ------------------------------------------------------------------ claims
\* the task store: what is committed to the database
Store == db.committed

\* the step is a commit attempt (complete_session reached its handler)
CommitStep == attempts' = attempts + 1

\* C1: once the state is completed, every command fails and changes neither
\* the state, the pending operations, the pending-reference counter, the
\* plan notes nor the task store
CompletedIsTerminal ==
  [][ state.name = "completed" =>
        /\ ~ result'.success
        /\ result'.error = "completed"
        /\ state' = state
        /\ pending_ops' = pending_ops
        /\ next_pending_ref' = next_pending_ref
        /\ plan_notes' = plan_notes
        /\ db' = db ]_vars

CompletedRejectedACommand ==
  /\ state.name = "completed"
  /\ result.error = "completed"
  /\ pending_ops # << >>
  /\ plan_notes # << >>

\* C2: as long as no complete_session was issued, the tasks and dependency
\* edges of the store are those of the moment the session was created
StagingLeavesStore ==
  attempts = 0 =>
    /\ Store = InitDb.committed
    /\ db.tasks = InitTasks
    /\ db.deps = InitDeps

StagedWithoutCommit ==
  /\ attempts = 0
  /\ \E i, j \in 1..Len(pending_ops) :
       /\ pending_ops[i].type = "create_task"
       /\ pending_ops[j].type = "delete_task"
       /\ pending_ops[j].target = << "existing", 1 >>

RECURSIVE TitleAfter(_, _, _)
TitleAfter(ops, j, i) ==
  IF i = j THEN ops[j].attrs["title"]
  ELSE IF /\ ops[i].type = "update_task"
          /\ ops[i].target = ops[j].target
          /\ "title" \in DOMAIN ops[i].attrs
       THEN ops[i].attrs["title"]
       ELSE TitleAfter(ops, j, i - 1)

\* C5: in a successful commit every operation staged against pending:N is
\* applied to the task the create with reference N of the same batch made:
\* that task carries the last staged title, is done if a complete was staged,
\* is gone if a delete was staged, and the batch adds no other task
PendingTargetsResolve ==
  [][ (CommitStep /\ result'.success) =>
        LET ops == pending_ops
            tr == commit_trace'
            n == Len(ops)
            Later(j, type) == \E i \in (j + 1)..n :
                                ops[i].type = type /\ ops[i].target = ops[j].target
            creates == { j \in 1..n : ops[j].type = "create_task" }
        IN /\ Len(tr) = n
           /\ \A i \in 1..n :
                (ops[i].type # "create_task" /\ ops[i].target[1] = "pending") =>
                  \E j \in creates : j < i /\ ops[j].target = ops[i].target
                                           /\ tr[i].target_id = tr[j].target_id
           /\ \A j \in creates :
                LET id == tr[j].target_id IN
                IF Later(j, "delete_task") THEN id \notin DOMAIN Store'.tasks
                ELSE /\ id \in DOMAIN Store'.tasks
                     /\ Store'.tasks[id].title = TitleAfter(ops, j, n)
                     /\ Store'.tasks[id].status =
                          IF Later(j, "complete_task") THEN "done" ELSE "todo"
           /\ DOMAIN Store'.tasks \ DOMAIN Store.tasks =
                { tr[j].target_id : j \in { c \in creates : ~ Later(c, "delete_task") } } ]_vars

PendingUpdateCommitted ==
  /\ state.name = "completed"
  /\ attempts = 1
  /\ Len(pending_ops) = 2
  /\ pending_ops[1].type = "create_task"
  /\ pending_ops[1].attrs["title"] = "A"
  /\ pending_ops[2].type = "update_task"
  /\ pending_ops[2].target = << "pending", 1 >>
  /\ DOMAIN Store.tasks = DOMAIN InitTasks \cup {4}
  /\ Store.tasks[4].title = "B"

\* C6: a commit attempt calls the store for the staged operations in staged
\* order, once each, and stops at the first call that fails
CommitInStagedOrder ==
  LET k == Len(commit_trace) IN
  /\ k <= Len(pending_ops)
  /\ \A i \in 1..k :
       /\ commit_trace[i].index = i
       /\ commit_trace[i].type = pending_ops[i].type
       /\ i < k => commit_trace[i].ok
  /\ \A i, j \in 1..k :
       (i < j /\ commit_trace[i].type = "create_task" /\ commit_trace[j].type = "create_task"
              /\ commit_trace[j].ok)
         => commit_trace[i].target_id < commit_trace[j].target_id
  /\ k >= 1 => (commit_trace[k].ok <=> result.success)
  /\ (k >= 1 /\ commit_trace[k].ok) => k = Len(pending_ops)

CommitStoppedAtFailure ==
  /\ Len(pending_ops) = 2
  /\ Len(commit_trace) = 1
  /\ ~ commit_trace[1].ok
  /\ pending_ops[2].type = "create_task"

\* C7 as stated: no pending-reference number is handed out twice in a session
NoRefHandedOutTwice == ~ reissued

\* C7 amended: the references handed out since the last discard_all (or since
\* the session began) are 1, 2, 3, ... in this order
RefsCountUpSinceDiscard ==
  \A i \in 1..Len(issued_refs) : issued_refs[i] = i

RefReusedAfterDiscard ==
  /\ reissued
  /\ Len(issued_refs) = 2
  /\ all_refs = {1, 2}

\* the select_task parameters that name a pending target
PendingSelects ==
  { p \in SelectParams : /\ "target" \in DOMAIN p
                         /\ ParseTarget(p["target"]).ok
                         /\ ParseTarget(p["target"]).type = << "pending" >> }

\* C8: in awaiting_command, select_task("pending:N") succeeds and moves to
\* editing_task(pending:N) if a staged create has reference N, and fails
\* leaving the state otherwise
SelectPendingNeedsCreate ==
  [][ \A p \in PendingSelects :
        (state.name = "awaiting_command" /\ HandleCommand("select_task", p)) =>
          LET n == ParseTarget(p["target"]).id IN
          IF \E i \in 1..Len(pending_ops) :
               /\ pending_ops[i].type = "create_task"
               /\ pending_ops[i].target = << "pending", n >>
          THEN result'.success /\ state' = EditingTask(<< "pending", n >>)
          ELSE ~ result'.success /\ state' = state ]_vars

SelectedSecondPending ==
  /\ state = EditingTask(<< "pending", 2 >>)
  /\ result.success
  /\ Len(pending_ops) = 2

EditingOnly == { "update_task_fields", "complete_task", "delete_task", "exit_editing" }

\* the step fails, stages nothing and leaves the state
Rejected ==
  /\ ~ result'.success
  /\ state' = state
  /\ pending_ops' = pending_ops

\* outside awaiting_ok every command fails in awaiting_command, and the
\* editing_task-only commands fail with a state error outside editing_task
StateRestriction(awaiting_ok) ==
  \A c \in Calls :
    (c[1] \in Commands /\ HandleCommand(c[1], c[2])) =>
      /\ (state.name = "awaiting_command" /\ c[1] \notin awaiting_ok) => Rejected
      /\ (c[1] \in EditingOnly /\ state.name # "editing_task") =>
           Rejected /\ result'.error \in { "state", "completed" }

\* C9 as stated: in awaiting_command every command but record_plan,
\* create_task, discard_all and complete_session fails with a state error
AwaitingAcceptsFourCommands ==
  [][ StateRestriction({ "record_plan", "create_task", "discard_all",
                         "complete_session" }) ]_vars

\* C9 amended: in awaiting_command every command but record_plan,
\* select_task, create_task, discard_all and complete_session fails with a
\* state error, and so does every editing_task-only command outside
\* editing_task; nothing is staged and the state stays
AwaitingAcceptsFiveCommands ==
  [][ StateRestriction({ "record_plan", "select_task", "create_task", "discard_all",
                         "complete_session" }) ]_vars

EditingCommandRejected ==
  /\ state.name = "awaiting_command"
  /\ result.error = "state"
  /\ pending_ops # << >>

\* C10: a command whose name is not in the available commands of the current
\* state is rejected and stages nothing
AvailableCommandsGate ==
  [][ \A c \in Calls :
        (HandleCommand(c[1], c[2]) /\ c[1] \notin get_available_commands(Self)) =>
          /\ ~ result'.success
          /\ pending_ops' = pending_ops
          /\ plan_notes' = plan_notes ]_vars

\* C11: discard_all in awaiting_command or editing_task succeeds and leaves
\* no pending operations, no plan notes, counter 1, no edit context and
\* state awaiting_command, and the database is as it was
DiscardAllClears ==
  [][ (state.name # "completed" /\ HandleCommand("discard_all", NoParams)) =>
        /\ result'.success
        /\ pending_ops' = << >>
        /\ plan_notes' = << >>
        /\ next_pending_ref' = 1
        /\ edit_context' = NoContext
        /\ state' = AwaitingCommand
        /\ db' = db ]_vars

DiscardedStagedWork ==
  /\ all_refs # {}
  /\ issued_refs = << >>
  /\ pending_ops = << >>
  /\ plan_notes = << >>
  /\ next_pending_ref = 1
  /\ state = AwaitingCommand
  /\ edit_context = NoContext
  /\ result.success
  /\ attempts = 0

\* C12: complete_session with no staged operation succeeds, makes no store
\* call, leaves the store as it was and moves the session to completed
EmptyCommitCompletes ==
  [][ (state.name # "completed" /\ pending_ops = << >>
         /\ HandleCommand("complete_session", NoParams)) =>
        /\ result'.success
        /\ state'.name = "completed"
        /\ commit_trace' = << >>
        /\ db' = db ]_vars

CompletedAfterDiscard ==
  /\ state.name = "completed"
  /\ pending_ops = << >>
  /\ all_refs # {}
  /\ attempts = 1
  /\ Store = InitDb.committed

\* the pending references of the create operations staged in ops, in order
StagedRefs(ops) ==
  LET creates == SelectSeq(ops, LAMBDA o : o.type = "create_task")
  IN [i \in 1..Len(creates) |-> creates[i].target[2]]

\* a machine staged exactly the creates it handed references out for, and
\* numbered them 1, 2, ... with its counter one past the last
OwnNumbering(ops, refs, counter) ==
  /\ StagedRefs(ops) = refs
  /\ \A i \in 1..Len(refs) : refs[i] = i
  /\ counter = Len(refs) + 1

\* C13: with two sessions interleaved, a command of the running session
\* leaves the other session's state, pending operations, counter and plan
\* notes as they are, and each session numbers its own creates from 1
SessionsAreSeparate ==
  /\ [](/\ OwnNumbering(pending_ops, issued_refs, next_pending_ref)
        /\ OwnNumbering(other.pending_ops, other.issued_refs, other.next_pending_ref))
  /\ [][ session_id' = session_id => other' = other ]_vars

BothSessionsStaged ==
  /\ issued_refs = << 1, 2 >>
  /\ other.issued_refs = << 1 >>
  /\ other.plan_notes # << >>
  /\ plan_notes = << >>
  /\ Len(pending_ops) = 2
  /\ Len(other.pending_ops) = 2
  /\ attempts = 1

\* every prerequisite of task t in store d is done
PrerequisitesDone(d, t) ==
  \A e \in d.deps :
    (e[1] = t /\ e[2] \in DOMAIN d.tasks) => d.tasks[e[2]].status = "done"

\* the step answered a complete of a stored task, issued through the route
\* or by a session commit
Completes == last'.op \in { "complete", "complete_task" } /\ last'.task_id \in DOMAIN Store.tasks

\* C14: a complete called by the owner sets the task done when every
\* prerequisite is done, and otherwise fails with the incomplete-prerequisites
\* error and leaves the store as it was
CompleteNeedsPrerequisites ==
  [][ (Completes /\ Store.tasks[last'.task_id].user_id = last'.user_id) =>
        IF PrerequisitesDone(Store, last'.task_id)
        THEN /\ last'.ok
             /\ Store'.tasks[last'.task_id].status = "done"
        ELSE /\ ~ last'.ok
             /\ last'.code = 400
             /\ last'.detail = "Cannot complete: incomplete prerequisites"
             /\ Store' = Store ]_vars

CompletedAfterPrerequisite ==
  /\ last.op = "complete"
  /\ last.ok
  /\ last.task_id = 1
  /\ last.user_id = 1
  /\ << 1, 2 >> \in Store.deps
  /\ Store.tasks[2].status = "done"
  /\ Store.tasks[1].status = "done"

\* C15: the status of a task becomes done, or a task is created as done,
\* only when every prerequisite of the task is done
DoneOnlyAfterPrerequisites ==
  [][ \A t \in DOMAIN Store'.tasks :
        (/\ Store'.tasks[t].status = "done"
         /\ t \in DOMAIN Store.tasks => Store.tasks[t].status # "done")
          => PrerequisitesDone(Store', t) ]_vars

\* the prerequisite edges of task t in store d
EdgesOf(d, t) == { e \in d.deps : e[1] = t }

\* C16: a successful complete of a recurring task marks it done and adds
\* exactly one task, the successor, with status todo and the owner, title,
\* description, notes, urgency, assignment and recurrence of the original and
\* a copy of each of its prerequisite edges; the original keeps its edges;
\* a successful complete of a task with recurrence none adds no task
RecurringCompleteMakesSuccessor ==
  [][ (Completes /\ last'.ok) =>
        LET t == last'.task_id
            o == Store.tasks[t]
            added == DOMAIN Store'.tasks \ DOMAIN Store.tasks
        IN /\ Store'.tasks[t].status = "done"
           /\ DOMAIN Store.tasks \subseteq DOMAIN Store'.tasks
           /\ Store.deps \subseteq Store'.deps
           /\ IF o.recurrence = "none"
              THEN added = {} /\ Store'.deps = Store.deps
              ELSE \E n \in added :
                     /\ added = { n }
                     /\ Store'.tasks[n].status = "todo"
                     /\ \A f \in { "user_id", "title", "description", "notes", "urgency",
                                   "assignee_id", "assigned_group_id", "recurrence" } :
                          Store'.tasks[n][f] = o[f]
                     /\ EdgesOf(Store', n) = { << n, e[2] >> : e \in EdgesOf(Store, t) }
                     /\ Store'.deps \ Store.deps = EdgesOf(Store', n) ]_vars

SuccessorOfMonthlyTask ==
  /\ last.op = "complete"
  /\ last.ok
  /\ last.task_id = 4
  /\ last.id = 5
  /\ Store.tasks[4].status = "done"
  /\ Store.tasks[5].status = "todo"
  /\ Store.tasks[5].notes = "n"
  /\ Store.tasks[5].due_date = << 2024, 2, 29 >>
  /\ EdgesOf(Store, 5) = { << 5, 1 >>, << 5, 2 >> }
  /\ EdgesOf(Store, 4) = { << 4, 1 >>, << 4, 2 >> }

\* the number of days from 1 January of year 1 to date dt, counted from 1
RECURSIVE DaysBeforeMonth(_, _)
DaysBeforeMonth(y, m) == IF m = 1 THEN 0 ELSE DaysBeforeMonth(y, m - 1) + DaysIn(y, m - 1)

Ordinal(dt) ==
  365 * (dt[1] - 1) + (dt[1] - 1) \div 4 - (dt[1] - 1) \div 100 + (dt[1] - 1) \div 400
    + DaysBeforeMonth(dt[1], dt[2]) + dt[3]

ValidDate(dt) == dt[1] \in 1..9999 /\ dt[2] \in 1..12 /\ dt[3] \in 1..DaysIn(dt[1], dt[2])

\* next is the date n days after dt
DaysLater(dt, n, next) == ValidDate(next) /\ Ordinal(next) = Ordinal(dt) + n

\* next is the day of dt in month m of year y, or the last day of that month
SameDayOf(dt, y, m, next) ==
  next = << y, m, IF dt[3] > DaysIn(y, m) THEN DaysIn(y, m) ELSE dt[3] >>

\* C17: the due date of the successor is the original's plus one day for
\* daily and plus seven days for weekly, the same day of the next month cut
\* to that month's length for monthly, and the same date of the next year for
\* yearly, 29 February becoming 28 February; without a due date there is
\* none; both implementations agree, and a date past year 9999 is an error
SuccessorDueDate ==
  last.op = "next_due" =>
    LET dt == last.due_date
        r == last.recurrence
        next == last.next.date
    IN /\ last.calculated = last.next
       /\ dt = NoDate => last.next.ok /\ next = NoDate
       /\ (dt # NoDate /\ last.next.ok) =>
            /\ r = "daily" => DaysLater(dt, 1, next)
            /\ r = "weekly" => DaysLater(dt, 7, next)
            /\ r = "monthly" =>
                 IF dt[2] = 12 THEN SameDayOf(dt, dt[1] + 1, 1, next)
                 ELSE SameDayOf(dt, dt[1], dt[2] + 1, next)
            /\ r = "yearly" => SameDayOf(dt, dt[1] + 1, dt[2], next)
            /\ (r = "yearly" /\ dt[2] = 2 /\ dt[3] = 29) => next = << dt[1] + 1, 2, 28 >>
       /\ (dt # NoDate /\ ~ last.next.ok) =>
            /\ dt[1] = 9999
            /\ \/ r = "yearly"
               \/ r = "monthly" /\ dt[2] = 12
               \/ r = "daily" /\ dt = << 9999, 12, 31 >>
               \/ r = "weekly" /\ dt[2] = 12 /\ dt[3] >= 25

MonthlyFromJanuaryEnd ==
  /\ last.op = "next_due"
  /\ last.due_date = << 2024, 1, 31 >>
  /\ last.recurrence = "monthly"
  /\ last.next = [ok |-> TRUE, date |-> << 2024, 2, 29 >>]

\* the step answered an update, delete or complete of a stored task that the
\* caller does not own, issued through a route or by a session commit
NonOwnerWrite ==
  /\ last'.op \in { "update", "delete", "complete",
                    "update_task", "delete_task", "complete_task" }
  /\ last'.task_id \in DOMAIN Store.tasks
  /\ Store.tasks[last'.task_id].user_id # last'.user_id

\* the call failed with the given code and the store is as it was
Refused(code) == ~ last'.ok /\ last'.code = code /\ Store' = Store

OwnerNeverChanges ==
  [][ /\ \A t \in DOMAIN Store.tasks \cap DOMAIN Store'.tasks :
           Store'.tasks[t].user_id = Store.tasks[t].user_id
      /\ \A t \in DOMAIN Store'.tasks \ DOMAIN Store.tasks :
           Store'.tasks[t].user_id = last'.user_id ]_vars

\* the value column k of task has once the fields of args are written: a
\* field that is absent or empty leaves the stored value
After(task, args, k) == IF Truthy(args, k) THEN args[k] ELSE task[k]

\* the step answered a create with both assignment fields, or an owner's
\* update that would leave the task with an assignee and a group
LeavesBothAssigned ==
  \/ /\ last'.op = "create"
     /\ Truthy(last'.args, "assignee_id")
     /\ Truthy(last'.args, "assigned_group_id")
  \/ /\ last'.op \in { "update", "update_task" }
     /\ last'.task_id \in DOMAIN Store.tasks
     /\ Store.tasks[last'.task_id].user_id = last'.user_id
     /\ After(Store.tasks[last'.task_id], last'.args, "assignee_id") # 0
     /\ After(Store.tasks[last'.task_id], last'.args, "assigned_group_id") # 0

\* C20: no stored task has both an assignee and an assigned group; a create
\* with both, and an update that would leave both set, fail with the
\* validation error and leave the store as it was
SingleAssignmentValidated ==
  /\ [](\A t \in DOMAIN Store.tasks : check_single_assignment(Store.tasks[t]))
  /\ [][ LeavesBothAssigned =>
           /\ ~ last'.ok
           /\ last'.code = 400
           /\ last'.detail = "Cannot assign to both user and group"
           /\ Store' = Store ]_vars

\* the pairs <<g, h>> of R joined with themselves n times
RECURSIVE Joined(_, _)
Joined(R, n) ==
  IF n = 0 THEN R
  ELSE Joined(R \cup { << x[1][1], x[2][2] >> : x \in { y \in R \X R : y[1][2] = y[2][1] } },
              n - 1)

\* the pairs <<g, h>> such that group h is a direct or transitive nested
\* member of group g in table ms
NestedIn(ms) ==
  Joined({ << m.group_id, m.member_group_id >> : m \in { x \in ms : x.member_group_id # 0 } },
         MaxGroups)

\* C21: check_circular_group_reference(parent, child) is true exactly when
\* child is parent or contains parent as a direct or transitive nested
\* member, on every table and for every order of the rows
CircularExactlyWhenContained ==
  last.op = "check_circular" =>
    last.result = (\/ last.parent_group_id = last.child_group_id
                   \/ << last.child_group_id, last.parent_group_id >>
                        \in NestedIn(group_memberships))

CircularThroughTwoLevels ==
  /\ last.op = "check_circular"
  /\ last.parent_group_id = 1
  /\ last.child_group_id = 3
  /\ last.result
  /\ { m \in group_memberships : m.member_group_id # 0 } = { GroupRow(3, 2), GroupRow(2, 1) }

\* C22: get_user_group_ids returns exactly the groups the user is a direct
\* member of and the groups that contain one of those as a direct or
\* transitive nested member, on every table, cyclic ones included, and for
\* every order of the rows
GroupIdsAreUpwardClosure ==
  last.op = "group_ids" =>
    last.result =
      { g \in Groups :
          \E m \in group_memberships :
            /\ m.user_id = last.user_id
            /\ g = m.group_id \/ << g, m.group_id >> \in NestedIn(group_memberships) }

GroupIdsOnCyclicTable ==
  /\ last.op = "group_ids"
  /\ group_memberships = { UserRow(1, Principal), GroupRow(2, 1), GroupRow(1, 2), GroupRow(3, 3) }
  /\ last.result = { 1, 2 }

\* no group is its own direct or transitive nested member
Acyclic(ms) == \A g \in Groups : << g, g >> \notin NestedIn(ms)

\* C23: from an acyclic table every sequence of add_group_member and
\* remove_group_member calls leaves the nesting acyclic, and an add of a
\* nested member that would close a cycle, a group into itself included, is
\* rejected and creates no row
NestingStaysAcyclic ==
  /\ [] Acyclic(group_memberships)
  /\ [][ (/\ last'.op = "add_member"
          /\ last'.member_group_id # 0
          /\ \/ last'.member_group_id = last'.group_id
             \/ << last'.member_group_id, last'.group_id >> \in NestedIn(group_memberships))
           => ~ last'.ok /\ group_memberships' = group_memberships ]_vars

CycleRejected ==
  /\ last.op = "add_member"
  /\ last.group_id = 3
  /\ last.member_group_id = 1
  /\ ~ last.ok
  /\ last.code = 400
  /\ last.detail = "Adding this group would create a circular reference"
  /\ { GroupRow(1, 2), GroupRow(2, 3) } \subseteq group_memberships

\* process_request has returned or raised
Ended == driver.status \in { "returned", "raised" }

\* C24: process_request makes at most max_conversation_rounds LLM calls and
\* applies at most max_conversation_rounds commands, and it returns or raises
DriverTerminates ==
  /\ [](/\ driver.llm_calls <= max_conversation_rounds
        /\ Len(driver.applied) <= max_conversation_rounds)
  /\ <> Ended

RoundsExhausted ==
  /\ driver.status = "returned"
  /\ driver.llm_calls = max_conversation_rounds
  /\ Len(driver.applied) = max_conversation_rounds
  /\ state.name # "completed"
  /\ error_count < max_command_errors

\* C25: once the machine is completed the driver has returned, the last
\* command it applied is the complete_session that succeeded, and no further
\* step, LLM call or command, is taken
CompletedEndsDriver ==
  /\ [](state.name = "completed" =>
          /\ driver.status = "returned"
          /\ driver.applied[Len(driver.applied)] = "complete_session"
          /\ driver.actions[Len(driver.actions)].success)
  /\ [][ state.name # "completed" ]_vars

CommittedInThreeRounds ==
  /\ state.name = "completed"
  /\ driver.status = "returned"
  /\ driver.applied = << "select_task", "delete_task", "complete_session" >>
  /\ driver.llm_calls = 3
  /\ 1 \notin DOMAIN Store.tasks

\* the reply of the round just made holds no structured command: it has no
\* choices, no tool call, or a tool call whose arguments are no JSON
NoCommandReply ==
  /\ driver'.llm_calls = driver.llm_calls + 1
  /\ \/ driver'.response.kind \in { "no_choices", "content" }
     \/ driver'.response.kind = "tool_call" /\ driver'.response.arguments = Undecodable

\* C26: a reply without a structured command ends the loop in that round:
\* no command is applied, no error is counted, nothing is raised, and the
\* actions recorded so far are returned with the session as it was
NoCommandEndsLoop ==
  [][ NoCommandReply =>
        /\ driver'.status = "returned"
        /\ driver'.applied = driver.applied
        /\ driver'.actions = driver.actions
        /\ driver'.message = build_final_message(driver.actions, state)
        /\ UNCHANGED << state, pending_ops, edit_context, next_pending_ref, plan_notes,
                        error_count, db >> ]_vars

StoppedWithStagedDelete ==
  /\ driver.status = "returned"
  /\ driver.response.kind = "content"
  /\ driver.applied = << "select_task", "delete_task" >>
  /\ driver.llm_calls = 3
  /\ Len(pending_ops) = 1
  /\ state.name = "editing_task"
  /\ error_count = 0
  /\ driver.message.text = "Performed actions but did not complete session"
  /\ Store = InitDb.committed

LLMFailureAborts ==
  /\ [](driver.response.kind = "http_error" => driver.status = "raised")
  /\ [][ driver.response.kind # "http_error" ]_vars
  /\ [][ /\ driver.response.kind # "http_error"
         /\ driver'.response.kind = "http_error" =>
              /\ driver'.llm_calls = driver.llm_calls + 1
              /\ driver'.applied = driver.applied
              /\ UNCHANGED << state, pending_ops, edit_context, next_pending_ref,
                              plan_notes, error_count, db >> ]_vars

RaisedWithStagedDelete ==
  /\ driver.status = "raised"
  /\ driver.response.kind = "http_error"
  /\ driver.applied = << "select_task", "delete_task" >>
  /\ driver.llm_calls = 3
  /\ Len(pending_ops) = 1
  /\ Store = InitDb.committed

\* C29: when process_request returns, its message says "committed" exactly
\* when at least one command was applied and the session is completed;
\* otherwise it says "No actions performed" for an empty list and "did not
\* complete" for any other, and the list holds every applied command,
\* successful or failed, in the order of application
CommittedIffCompleted ==
  driver.status = "returned" =>
    /\ driver.message.text = "Successfully performed actions and committed changes"
         <=> (driver.actions # << >> /\ state.name = "completed")
    /\ driver.message.text # "Successfully performed actions and committed changes" =>
         driver.message.text = IF driver.actions = << >>
                               THEN "No actions performed"
                               ELSE "Performed actions but did not complete session"
    /\ driver.message.action_count = Len(driver.actions)
    /\ Len(driver.actions) = Len(driver.applied)
    /\ \A i \in DOMAIN driver.actions : driver.actions[i].command = driver.applied[i]

CommittedAfterOneFailure ==
  /\ driver.status = "returned"
  /\ driver.message.text = "Successfully performed actions and committed changes"
  /\ driver.message.action_count = 4
  /\ driver.applied[4] = "complete_session"
  /\ \E i \in 1..3 : ~ driver.actions[i].success
  /\ driver.actions[4].success
  /\ state.name = "completed"
  /\ Store # InitDb.committed

\* C30: a failure inside a command handler does not leave handle_command
\* and does not end the session: the call returns a failed result, the
\* state is not completed, and the session can take the next command
HandlerFailureContained ==
  /\ result.error # "raised"
  /\ result.error = "commit" => (state.name # "completed" /\ ~ db.inactive)

\* C31: a staged update that carries a status has, once its commit step
\* succeeded, set the status of its target task to that value
StagedStatusApplied ==
  [][ /\ last'.op = "update_task"
      /\ last'.ok
      /\ "status" \in DOMAIN last'.args
      => Store'.tasks[last'.task_id].status = last'.args["status"] ]_vars

\* the date fields of the attributes args whose string is no ISO date
BadDates(args) ==
  { k \in DateFields \cap DOMAIN args : ~ fromisoformat(args[k]).ok }

\* C32: a date attribute that is no valid ISO date does not make the commit
\* step fail and counts as unset: a staged create stores the task with the
\* field empty, a staged update fails only where the principal may not
\* modify the task and otherwise leaves the field as it was
BadDateIsUnset ==
  [][ BadDates(last'.args) # {} =>
        /\ last'.op = "create_task" =>
             /\ last'.ok
             /\ \A k \in BadDates(last'.args) : Store'.tasks[last'.id][k] = NoDate
        /\ last'.op = "update_task" =>
             /\ last'.ok <=> /\ get_task_by_id(db, Principal, last'.task_id) # 0
                             /\ can_modify_task(Principal, db.tasks[last'.task_id])
             /\ last'.ok =>
                  \A k \in BadDates(last'.args) :
                    Store'.tasks[last'.task_id][k] = Store.tasks[last'.task_id][k] ]_vars

BadDueDateKeepsJanuaryEnd ==
  /\ last.op = "update_task"
  /\ last.task_id = 4
  /\ last.args = [due_date |-> << 2024, 2, 30 >>]
  /\ last.ok
  /\ Store.tasks[4].due_date = << 2024, 1, 31 >>

\* task n is in the session's view, readable by the principal, owned by another
ReadableNotOwned(d, n) ==
  /\ n \in DOMAIN d.tasks
  /\ can_access_task(Principal, d.tasks[n])
  /\ d.tasks[n].user_id # Principal

\* C33: select_task is accepted in awaiting_command only, and checks an
\* existing target for read access, at select time only: it fails, staying
\* in awaiting_command, for a task that is missing or unreadable; it
\* succeeds for a task the principal reads but does not own, on which
\* update, complete and delete are staged and then refused (403) by the
\* store at commit; in editing_task it fails and keeps the target
SelectChecksReadAccessOnly ==
  /\ \A p \in SelectParams :
       LET r == handle_command(Self, "select_task", p) IN
       /\ state.name # "awaiting_command" =>
            ~ r.success /\ r.self.state = state /\ r.self.edit_context = edit_context
       /\ state.name = "awaiting_command" =>
            /\ ~ r.success => r.self.state = AwaitingCommand
            /\ \A c \in DOMAIN DigitValue :
                 p = Target("existing", c) =>
                   /\ r.success <=>
                        /\ DigitValue[c] \in DOMAIN db.tasks
                        /\ can_access_task(Principal, db.tasks[DigitValue[c]])
                   /\ r.success => r.self.state = EditingTask(<< "existing", DigitValue[c] >>)
  /\ \A n \in DOMAIN db.tasks :
       ReadableNotOwned(db, n) /\ state = EditingTask(<< "existing", n >>) =>
         /\ RoomForOp => handle_command(Self, "update_task_fields", [title |-> "B"]).success
         /\ RoomForOp => handle_command(Self, "complete_task", NoParams).success
         /\ RoomForOp => handle_command(Self, "delete_task", NoParams).success
         /\ \A type \in { "update_task", "complete_task", "delete_task" } :
              CommitOp(PendingOperation(type, << "existing", n >>, << >>), db, << >>).code = 403
  /\ \A i \in DOMAIN commit_trace :
       /\ commit_trace[i].type # "create_task"
       /\ ReadableNotOwned(InitDb, commit_trace[i].target_id)
       => ~ commit_trace[i].ok /\ i = Len(commit_trace) /\ result.error = "commit"

ForbiddenAtCommit ==
  /\ state = EditingTask(<< "existing", 2 >>)
  /\ Len(pending_ops) = 1
  /\ pending_ops[1].type = "delete_task"
  /\ Len(commit_trace) = 1
  /\ commit_trace[1].target_id = 2
  /\ ~ commit_trace[1].ok
  /\ result.error = "commit"
  /\ Store = InitDb.committed

\* C34: exit_editing in editing_task returns to awaiting_command and clears
\* the edit context; pending operations, pending-reference counter, plan
\* notes and store are as before, and a complete_session after it commits
\* what was staged, operation by operation, as it would have without it
ExitEditingKeepsStaged ==
  state.name = "editing_task" =>
    LET r == handle_command(Self, "exit_editing", NoParams)
        after == handle_command(r.self, "complete_session", NoParams)
        before == handle_command(Self, "complete_session", NoParams)
    IN /\ r.success
       /\ r.self.state = AwaitingCommand
       /\ r.self.edit_context = NoContext
       /\ r.self.pending_ops = pending_ops
       /\ r.self.next_pending_ref = next_pending_ref
       /\ r.self.plan_notes = plan_notes
       /\ r.self.db = db
       /\ after.success = before.success
       /\ after.trace = before.trace
       /\ after.self.db = before.self.db
       /\ after.success =>
            /\ Len(after.trace) = Len(pending_ops)
            /\ \A i \in DOMAIN pending_ops :
                 after.trace[i].type = pending_ops[i].type /\ after.trace[i].ok

CommittedAfterExit ==
  /\ state.name = "completed"
  /\ edit_context = NoContext
  /\ Len(pending_ops) = 2
  /\ pending_ops[1].type = "update_task"
  /\ pending_ops[2].type = "delete_task"
  /\ Len(commit_trace) = 2
  /\ commit_trace[2].ok
  /\ 1 \notin DOMAIN Store.tasks

\* C35: the pending-reference counter is one more than the number of
\* staged creates, whose references in staged order are 1, 2, ..., k; a
\* create_task without a title fails, stages nothing and leaves the counter
CounterCountsStagedCreates ==
  /\ next_pending_ref = Len(StagedRefs(pending_ops)) + 1
  /\ \A i \in DOMAIN StagedRefs(pending_ops) : StagedRefs(pending_ops)[i] = i
  /\ \A p \in CreateParams :
       Missing(p, "title") =>
         LET r == handle_command(Self, "create_task", p)
         IN /\ ~ r.success
            /\ r.ref = 0
            /\ r.self.pending_ops = pending_ops
            /\ r.self.next_pending_ref = next_pending_ref

RenumberedAfterDiscard ==
  /\ next_pending_ref = 2
  /\ Len(pending_ops) = 2
  /\ pending_ops[1].type = "create_task"
  /\ pending_ops[1].target = << "pending", 1 >>
  /\ pending_ops[2].type = "update_task"
  /\ reissued
  /\ result.error = "validation"

\* ops[i] is the staged create of the pending target
CreateOf(ops, i, target) == ops[i].type = "create_task" /\ ops[i].target = target

\* C36: a staged update, complete or delete of pending:N comes after a
\* staged create with reference N, and while pending:N is being edited that
\* create is staged; so a commit never fails on an unresolved reference
PendingTargetsAreStaged ==
  /\ \A j \in DOMAIN pending_ops :
       pending_ops[j].type # "create_task" /\ pending_ops[j].target[1] = "pending" =>
         \E i \in 1..(j - 1) : CreateOf(pending_ops, i, pending_ops[j].target)
  /\ state.name = "editing_task" /\ state.target[1] = "pending" =>
       \E i \in DOMAIN pending_ops : CreateOf(pending_ops, i, state.target)
  /\ commit_operations(Self).err # "Pending task not yet created"
  /\ \A i \in DOMAIN commit_trace :
       commit_trace[i].type # "create_task" => commit_trace[i].target_id # 0

PendingTaskDeletedAtCommit ==
  /\ state.name = "completed"
  /\ Len(pending_ops) = 2
  /\ CreateOf(pending_ops, 1, << "pending", 1 >>)
  /\ pending_ops[2].type = "delete_task"
  /\ pending_ops[2].target = << "pending", 1 >>
  /\ Len(commit_trace) = 2
  /\ commit_trace[2].target_id = 4
  /\ commit_trace[2].ok
  /\ DOMAIN Store.tasks = { 1, 2, 3 }

\* C37: a complete_session that follows a failed one does not apply again
\* the staged operations the failed attempt had applied: no staged create
\* makes a second task
RetryAppliesOnce ==
  [][ attempts' = attempts + 1 /\ commit_trace # << >> =>
        /\ \A i \in DOMAIN commit_trace, j \in DOMAIN commit_trace' :
             commit_trace[i].ok =>
               ~ (commit_trace'[j].index = commit_trace[i].index /\ commit_trace'[j].ok)
        /\ Cardinality(DOMAIN Store'.tasks \ DOMAIN InitTasks)
             <= Len(StagedRefs(pending_ops)) ]_vars

\* C38: a command that fails for a reason other than a commit error leaves
\* the state, the pending operations, the pending-reference counter, the
\* plan notes and the edit context as they were
FailureChangesNothing ==
  [][ /\ ~ result'.success
      /\ result'.error \in { "completed", "unknown_command", "state", "validation",
                             "not_found" }
      => UNCHANGED << state, pending_ops, next_pending_ref, plan_notes, edit_context >> ]_vars

FailedWhileEditing ==
  /\ ~ result.success
  /\ result.error = "state"
  /\ state = EditingTask(<< "pending", 1 >>)
  /\ edit_context = [kind |-> "pending_ref", id |-> 1]
  /\ Len(pending_ops) = 2
  /\ next_pending_ref = 2
  /\ plan_notes # << >>

\* the applied commands that returned failure so far
FailedActions == { i \in DOMAIN driver.actions : ~ driver.actions[i].success }

\* C39: while process_request runs and when it returns, the error counter
\* is the number of applied commands that failed, and the loop is left for
\* errors exactly when that number is max_command_errors
ErrorCountIsFailedCommands ==
  driver.status \in { "running", "returned" } =>
    /\ error_count = Cardinality(FailedActions)
    /\ Cardinality(FailedActions) <= max_command_errors
    /\ driver.status = "running" => Cardinality(FailedActions) < max_command_errors

\* C40: a create or update that failed on an unreadable prerequisite
\* leaves the store unchanged, whatever the session commits later: the task
\* it had begun to create is not stored, and the prerequisite edges it had
\* begun to replace are still stored
FailedPrereqWriteNotPersisted ==
  /\ \A t \in DOMAIN Store.tasks : Store.tasks[t].title # "P"
  /\ 1 \in DOMAIN Store.tasks => << 1, 2 >> \in Store.deps

====
